---- MODULE Spec2Model ----
(***************************************************************************)
(* ExecutionTracker (src/main/src/services/executionTracker.ts): the       *)
(* per-session registry of active executions, startExecution,              *)
(* endExecution, cancelExecution and the collaborators they call           *)
(* (session manager, git diff manager, commit manager).                    *)
(*                                                                         *)
(* Every invocation of an async method is a call record in `calls`; a call *)
(* advances from one await to the next in one step, since the code between *)
(* two awaits runs without interruption on the single JavaScript thread.   *)
(***************************************************************************)
EXTENDS Integers, Sequences, FiniteSets, TLC

VARIABLES
    activeExecutions, \* Map<string, ExecutionContext>: session -> context or NoCtx
    calls,            \* the invocations of startExecution / endExecution so far
    head,             \* worktree path -> current HEAD commit (commits are numbered)
    dirty,            \* worktree path -> number of files with uncommitted changes
    nextSeq,          \* session -> last execution sequence handed out
    output,           \* session -> events appended by addSessionOutput
    diffs,            \* the persisted execution diff records, in creation order
    events            \* the lifecycle events emitted by the tracker, in order

vars == <<activeExecutions, calls, head, dirty, nextSeq, output, diffs, events>>

\* ------------------------------------------------------------------ bounds
MaxCalls == 2
MaxHash == 2
MaxFiles == 1

\* the bound endExecution gives waitForStructuredCommit, in milliseconds
WaitTimeoutMs == 5000
\* the wait looks for a new commit at intervals; two intervals make the bound
PollMs == WaitTimeoutMs \div 2

Sessions == {"s1", "s2"}
WorktreeOf(s) == IF s = "s1" THEN "w1" ELSE "w2"
Paths == {WorktreeOf(s) : s \in Sessions}

Modes == {"structured", "checkpoint", "disabled"}
Absent == "absent"
DefaultPrefix == "checkpoint: "
Prefixes == {DefaultPrefix, "wip: "}

\* ------------------------------------------------------------ data model
NoCtx ==
    [sessionId |-> "none", worktreePath |-> "none", promptMarkerId |-> 0,
     beforeCommitHash |-> -1, executionSequence |-> 0, prompt |-> 0]

NoSettings == [mode |-> "none", checkpointPrefix |-> "none"]
NoDiff == [kind |-> "none", files |-> 0, beforeHash |-> -1, afterHash |-> -1]
NoCapture == [kind |-> "none", path |-> "none", from |-> -1, to |-> -1]

Finished == {"returned", "threw"}

isTracking(s) == activeExecutions[s] # NoCtx

getExecutionContext(s) == activeExecutions[s]

\* ------------------------------------------------- commit mode resolution
\* session.commitModeSettings: a serialized structure.  present = FALSE is
\* undefined or the empty string; wellFormed = FALSE is text JSON.parse rejects;
\* otherwise the text encodes an object with the listed fields (Absent: no such key).
NoPayload ==
    [present |-> FALSE, wellFormed |-> FALSE, mode |-> Absent, checkpointPrefix |-> Absent]
BadPayload ==
    [present |-> TRUE, wellFormed |-> FALSE, mode |-> Absent, checkpointPrefix |-> Absent]
GoodPayloads ==
    [present : {TRUE}, wellFormed : {TRUE}, mode : Modes \cup {Absent},
     checkpointPrefix : Prefixes \cup {Absent}]
Payloads == {NoPayload, BadPayload} \cup GoodPayloads

\* what sessionManager.getSession returns: no record, or a record with the
\* optional fields commitMode, commitModeSettings, autoCommit
NoSession ==
    [exists |-> FALSE, commitMode |-> Absent, commitModeSettings |-> NoPayload,
     autoCommit |-> Absent]
SessionRecords ==
    {NoSession} \cup
    [exists : {TRUE}, commitMode : Modes \cup {Absent}, commitModeSettings : Payloads,
     autoCommit : {Absent, "true", "false"}]

\* JSON.parse(session.commitModeSettings): the object, or a SyntaxError
JSONParse(payload) ==
    IF payload.wellFormed
    THEN [ok |-> TRUE, mode |-> payload.mode, checkpointPrefix |-> payload.checkpointPrefix]
    ELSE [ok |-> FALSE, mode |-> Absent, checkpointPrefix |-> Absent]

\* mutant: JSON.parse without the try block
TryParse_NoCatch(payload) ==
    [parsed |-> JSONParse(payload), caught |-> FALSE,
     escapes |-> ~JSONParse(payload).ok]

\* lines 96-102: the try block around JSON.parse; caught = TRUE when the catch
\* block took the error (it logs it), escapes = TRUE when the error leaves the block
TryParse(payload) ==
    LET parsed == JSONParse(payload)
    IN  [parsed |-> parsed, caught |-> ~parsed.ok, escapes |-> FALSE]

DefaultSettings == [mode |-> "checkpoint", checkpointPrefix |-> DefaultPrefix]

\* object spread { ...base, ...over }: a key of `over` replaces the key of `base`
Spread(base, over) ==
    [mode |-> IF over.mode # Absent THEN over.mode ELSE base.mode,
     checkpointPrefix |->
        IF over.checkpointPrefix # Absent THEN over.checkpointPrefix
        ELSE base.checkpointPrefix]

\* mutant: the merge does not force the mode
MergeSettings_NoForce(base, parsed, commitMode) == Spread(base, parsed)

\* { ...commitModeSettings, ...parsedSettings, mode: commitMode }
MergeSettings(base, parsed, commitMode) ==
    [Spread(base, parsed) EXCEPT !.mode = commitMode]

\* lines 82-109: the commit mode, the settings handed to handlePostPromptCommit,
\* and whether parsing the serialized settings failed
ResolveCommitMode(session) ==
    IF session.exists /\ session.commitMode # Absent
    THEN LET commitMode == session.commitMode
             base == [DefaultSettings EXCEPT !.mode = commitMode]
             try == TryParse(session.commitModeSettings)
         IN  IF session.commitModeSettings.present
             THEN [commitMode |-> commitMode,
                   settings |-> IF try.parsed.ok
                                THEN MergeSettings(base, try.parsed, commitMode)
                                ELSE base,
                   parseFailed |-> try.caught,
                   throws |-> try.escapes]
             ELSE [commitMode |-> commitMode, settings |-> base,
                   parseFailed |-> FALSE, throws |-> FALSE]
    ELSE IF session.exists /\ session.autoCommit # Absent
    THEN LET commitMode == IF session.autoCommit = "true" THEN "checkpoint" ELSE "disabled"
         IN  [commitMode |-> commitMode,
              settings |-> [DefaultSettings EXCEPT !.mode = commitMode],
              parseFailed |-> FALSE, throws |-> FALSE]
    ELSE [commitMode |-> "checkpoint", settings |-> DefaultSettings,
          parseFailed |-> FALSE, throws |-> FALSE]

\* ---------------------------------------------------------- collaborators
\* gitDiffManager.getCurrentCommitHash(path): HEAD of the worktree
getCurrentCommitHash(hd, p) == hd[p]

\* gitDiffManager.captureWorkingDirectoryDiff(path): the uncommitted changes
captureWorkingDirectoryDiff(p) ==
    [kind |-> "workdir", files |-> dirty[p], beforeHash |-> head[p], afterHash |-> head[p]]

\* gitDiffManager.captureCommitDiff(path, before, after): the range between two
\* commits; a commit of the model counts as one changed file
captureCommitDiff(p, before, after) ==
    [kind |-> "commit", files |-> IF after > before THEN after - before ELSE 0,
     beforeHash |-> before, afterHash |-> after]

\* commitManager.handlePostPromptCommit(sessionId, path, settings, ...): the
\* results {success, commitHash?, error?} it can resolve to; commits = TRUE when
\* it created a commit of the pending changes
CommitOutcomes(settings, p) ==
    IF settings.mode = "checkpoint"
    THEN (IF dirty[p] > 0 /\ head[p] < MaxHash
          THEN {[success |-> TRUE, commitHash |-> head[p] + 1, error |-> FALSE, commits |-> TRUE]}
          ELSE {})
         \cup
         (IF dirty[p] = 0
          THEN {[success |-> TRUE, commitHash |-> -1, error |-> FALSE, commits |-> FALSE]}
          ELSE {})
         \cup
         {[success |-> FALSE, commitHash |-> -1, error |-> TRUE, commits |-> FALSE]}
    ELSE {[success |-> TRUE, commitHash |-> -1, error |-> FALSE, commits |-> FALSE]}

\* commitManager.waitForStructuredCommit(sessionId, path, timeoutMs), called when
\* HEAD was `from`: success with the new hash once a new commit is there,
\* failure with a timeout error when the bound passes without one
WaitOutcomes(p, from) ==
    IF head[p] # from
    THEN {[success |-> TRUE, commitHash |-> head[p], error |-> FALSE]}
    ELSE {[success |-> FALSE, commitHash |-> -1, error |-> TRUE]}

\* ------------------------------------------------------- tracker helpers
NewCall ==
    [op |-> "none", sid |-> "none", pc |-> "none", cause |-> "none",
     marker |-> 0, prompt |-> 0, path |-> "none", headAtCall |-> -1,
     ctx |-> NoCtx, mode |-> "none", session |-> NoSession, settings |-> NoSettings,
     parseFailed |-> FALSE, commitFailed |-> FALSE, timedOut |-> FALSE,
     waitFrom |-> -1, timeoutMs |-> 0, waited |-> 0,
     afterHash |-> -1, capture |-> NoCapture, diff |-> NoDiff,
     steps |-> <<>>, appended |-> <<>>]

InFlight(s) ==
    \E c \in 1..Len(calls) : calls[c].sid = s /\ calls[c].pc \notin Finished

\* mutant: the context stays in the registry
DeleteContext_Kept(reg, s) == reg

\* this.activeExecutions.delete(sessionId)
DeleteContext(reg, s) == [reg EXCEPT ![s] = NoCtx]

\* mutant: a catch block that does not delete the context
CatchCleanup_Skipped(reg, s) == reg

\* line 272: the cleanup of the catch block of endExecution
CatchCleanup(reg, s) == DeleteContext(reg, s)

\* mutant: the try block ends without deleting the context
FinalCleanup_Skipped(reg, s) == reg

\* mutant: the cleanup empties the registry
FinalCleanup_All(reg, s) == [t \in Sessions |-> NoCtx]

\* line 268: the cleanup at the end of the try block of endExecution
FinalCleanup(reg, s) == DeleteContext(reg, s)

\* mutant: a context built over the one already in the registry, keeping its
\* prompt
BuildContext_Merged(s, p, marker, prompt, beforeCommitHash, executionSequence) ==
    [sessionId |-> s, worktreePath |-> p, promptMarkerId |-> marker,
     beforeCommitHash |-> beforeCommitHash, executionSequence |-> executionSequence,
     prompt |-> IF activeExecutions[s] # NoCtx THEN activeExecutions[s].prompt ELSE prompt]

\* lines 46-53: the context startExecution builds
BuildContext(s, p, marker, prompt, beforeCommitHash, executionSequence) ==
    [sessionId |-> s, worktreePath |-> p, promptMarkerId |-> marker,
     beforeCommitHash |-> beforeCommitHash, executionSequence |-> executionSequence,
     prompt |-> prompt]

\* mutant: a failed commit is not reported
CommitOutput_NoError(commitMode, res) ==
    IF res.success /\ commitMode = "checkpoint"
    THEN <<[subtype |-> "autocommit_success", commit_hash |-> res.commitHash]>>
    ELSE IF res.success /\ commitMode = "structured"
    THEN <<[subtype |-> "autocommit_mode", commit_hash |-> -1]>>
    ELSE <<>>

\* mutant: the success message does not carry the hash of the commit
CommitOutput_NoHash(commitMode, res) ==
    IF ~res.success /\ res.error
    THEN <<[subtype |-> "autocommit_error", commit_hash |-> -1]>>
    ELSE IF res.success /\ commitMode = "checkpoint"
    THEN <<[subtype |-> "autocommit_success", commit_hash |-> -1]>>
    ELSE IF res.success /\ commitMode = "structured"
    THEN <<[subtype |-> "autocommit_mode", commit_hash |-> -1]>>
    ELSE <<>>

\* mutant: success is reported whatever the mode
CommitOutput_AnyMode(commitMode, res) ==
    IF ~res.success /\ res.error
    THEN <<[subtype |-> "autocommit_error", commit_hash |-> -1]>>
    ELSE IF res.success /\ commitMode = "structured"
    THEN <<[subtype |-> "autocommit_mode", commit_hash |-> -1]>>
    ELSE IF res.success
    THEN <<[subtype |-> "autocommit_success", commit_hash |-> res.commitHash]>>
    ELSE <<>>

\* mutant: entering structured mode is not announced
CommitOutput_QuietStructured(commitMode, res) ==
    IF ~res.success /\ res.error
    THEN <<[subtype |-> "autocommit_error", commit_hash |-> -1]>>
    ELSE IF res.success /\ commitMode = "checkpoint"
    THEN <<[subtype |-> "autocommit_success", commit_hash |-> res.commitHash]>>
    ELSE <<>>

\* lines 122-174: the subtypes appended to the session output after the commit attempt
CommitOutput(commitMode, res) ==
    IF ~res.success /\ res.error
    THEN <<[subtype |-> "autocommit_error", commit_hash |-> -1]>>
    ELSE IF res.success /\ commitMode # "disabled"
    THEN IF commitMode = "checkpoint"
         THEN <<[subtype |-> "autocommit_success", commit_hash |-> res.commitHash]>>
         ELSE IF commitMode = "structured"
         THEN <<[subtype |-> "autocommit_mode", commit_hash |-> -1]>>
         ELSE <<>>
    ELSE <<>>

\* mutant: a wait that ends without a commit is not reported
WaitOutput_NoTimeout(res) ==
    IF res.success /\ res.commitHash # -1
    THEN <<[subtype |-> "autocommit_claude_success", commit_hash |-> res.commitHash]>>
    ELSE <<>>

\* lines 185-216: the subtypes appended after the structured wait
WaitOutput(res) ==
    IF ~res.success
    THEN <<[subtype |-> "autocommit_timeout", commit_hash |-> -1]>>
    ELSE IF res.commitHash # -1
    THEN <<[subtype |-> "autocommit_claude_success", commit_hash |-> res.commitHash]>>
    ELSE <<>>

\* mutant: the wait is never entered
NeedsWait_Never(commitMode) == FALSE

\* the wait follows the commit attempt in every mode
NeedsWait_Always(commitMode) == TRUE

\* line 177: whether the structured wait follows the commit attempt
NeedsWait(commitMode) == commitMode = "structured"

\* mutant: the range is taken the wrong way round
CaptureChoice_Swapped(ctx, afterCommitHash) ==
    IF afterCommitHash = ctx.beforeCommitHash
    THEN [kind |-> "workdir", path |-> ctx.worktreePath, from |-> -1, to |-> -1]
    ELSE [kind |-> "commit", path |-> ctx.worktreePath,
          from |-> afterCommitHash, to |-> ctx.beforeCommitHash]

\* lines 225-237: which capture is called, with which arguments
CaptureChoice(ctx, afterCommitHash) ==
    IF afterCommitHash = ctx.beforeCommitHash
    THEN [kind |-> "workdir", path |-> ctx.worktreePath, from |-> -1, to |-> -1]
    ELSE [kind |-> "commit", path |-> ctx.worktreePath,
          from |-> ctx.beforeCommitHash, to |-> afterCommitHash]

\* the result the chosen capture resolves to
CaptureResult(capture) ==
    IF capture.kind = "workdir"
    THEN captureWorkingDirectoryDiff(capture.path)
    ELSE captureCommitDiff(capture.path, capture.from, capture.to)

\* mutant: the record does not take over the stats of the captured diff
DiffData_NoStats(s, ctx, executionDiff) ==
    [session_id |-> s, prompt_marker_id |-> ctx.promptMarkerId,
     execution_sequence |-> ctx.executionSequence,
     kind |-> executionDiff.kind,
     stats_files_changed |-> 0,
     before_commit_hash |-> executionDiff.beforeHash,
     after_commit_hash |-> executionDiff.afterHash]

\* the record is built from the context the registry holds when it is persisted
DiffData_FromRegistry(s, ctx, executionDiff) ==
    [session_id |-> s, prompt_marker_id |-> activeExecutions[s].promptMarkerId,
     execution_sequence |-> activeExecutions[s].executionSequence,
     kind |-> executionDiff.kind,
     stats_files_changed |-> executionDiff.files,
     before_commit_hash |-> executionDiff.beforeHash,
     after_commit_hash |-> executionDiff.afterHash]

\* lines 240-251: CreateExecutionDiffData
DiffData(s, ctx, executionDiff) ==
    [session_id |-> s, prompt_marker_id |-> ctx.promptMarkerId,
     execution_sequence |-> ctx.executionSequence,
     kind |-> executionDiff.kind,
     stats_files_changed |-> executionDiff.files,
     before_commit_hash |-> executionDiff.beforeHash,
     after_commit_hash |-> executionDiff.afterHash]

\* the locals of a call are gone once it has finished: what stays on record is
\* the operation, its session, how it ended, the context it worked on, the HEAD
\* it was called at, the steps it took and the output it appended
Forget(call) ==
    [call EXCEPT !.marker = 0, !.prompt = 0, !.path = "none",
                 !.session = NoSession, !.settings = NoSettings, !.waitFrom = -1,
                 !.timeoutMs = 0, !.waited = 0,
                 !.afterHash = -1, !.capture = NoCapture, !.diff = NoDiff]

Throw(call, cause) == [Forget(call) EXCEPT !.pc = "threw", !.cause = cause]

Return(call) == [Forget(call) EXCEPT !.pc = "returned"]

Step(call, name) == [call EXCEPT !.steps = Append(@, name)]

\* lines 219-237: re-read HEAD (hd: the worktrees' HEADs at that moment), choose
\* the capture and call it; hashOk = FALSE: getCurrentCommitHash throws
ReadHashAndCapture(call, hd, hashOk) ==
    IF ~hashOk
    THEN Throw(call, "hash")
    ELSE LET afterCommitHash == getCurrentCommitHash(hd, call.ctx.worktreePath)
         IN  [Step(Step(call, "hash"), "capture.call") EXCEPT
                 !.pc = "capture",
                 !.afterHash = afterCommitHash,
                 !.capture = CaptureChoice(call.ctx, afterCommitHash)]

\* the catch block deletes the context only if it is still the one the call read
Settle_OwnContextOnly(c, nc) ==
    /\ calls' = [calls EXCEPT ![c] = nc]
    /\ IF nc.pc = "threw" /\ activeExecutions[nc.sid] = nc.ctx
       THEN activeExecutions' = CatchCleanup(activeExecutions, nc.sid)
       ELSE UNCHANGED activeExecutions

\* an endExecution call moves to `nc`; a throw runs the catch block (lines 270-273)
Settle(c, nc) ==
    /\ calls' = [calls EXCEPT ![c] = nc]
    /\ IF nc.pc = "threw"
       THEN activeExecutions' = CatchCleanup(activeExecutions, nc.sid)
       ELSE UNCHANGED activeExecutions

\* ------------------------------------------------------------------ Init
Init ==
    /\ activeExecutions = [s \in Sessions |-> NoCtx]
    /\ calls = <<>>
    /\ head = [p \in Paths |-> 0]
    /\ dirty = [p \in Paths |-> 0]
    /\ nextSeq = [s \in Sessions |-> 0]
    /\ output = [s \in Sessions |-> <<>>]
    /\ diffs = <<>>
    /\ events = <<>>

\* ------------------------------------------------------- startExecution
\* the prompt marker id and the prompt text of a call: every prompt is a new
\* marker with its own text
NewPrompt == Len(calls) + 1

\* lines 35-40: the call up to its await of getNextExecutionSequence
StartCall(s) ==
    /\ calls' = Append(calls,
          [NewCall EXCEPT !.op = "start", !.sid = s, !.pc = "sequence",
                          !.marker = NewPrompt, !.prompt = NewPrompt,
                          !.path = WorktreeOf(s),
                          !.headAtCall = head[WorktreeOf(s)]])
    /\ UNCHANGED <<activeExecutions, head, dirty, nextSeq, output, diffs, events>>

\* mutant: the hash is read before the await
StartHash_AtCall(call, hd) == call.headAtCall

\* line 43: the hash startExecution takes as the starting point, read when the
\* call goes on after its await (hd: the worktrees' HEADs at that moment)
StartHash(call, hd) == getCurrentCommitHash(hd, call.path)

\* mutant: a catch block that deletes the session's context, as endExecution's does
StartCatch_Clears(reg, s) == [reg EXCEPT ![s] = NoCtx]

\* lines 58-61: the catch block of startExecution logs and re-throws; it leaves
\* the registry alone
StartCatch(reg, s) == reg

\* lines 40-61: the await resolves or rejects, then the hash is read, the
\* context stored and execution-started emitted
StartResume(c) ==
    /\ c \in 1..Len(calls)
    /\ calls[c].op = "start" /\ calls[c].pc = "sequence"
    /\ LET call == calls[c]
           s == call.sid
       IN  \E seqOk \in BOOLEAN, hashOk \in BOOLEAN, emitOk \in BOOLEAN :
             IF ~seqOk
             THEN /\ calls' = [calls EXCEPT ![c] = Throw(call, "sequence")]
                  /\ activeExecutions' = StartCatch(activeExecutions, s)
                  /\ UNCHANGED <<nextSeq, events>>
             ELSE LET executionSequence == nextSeq[s] + 1
                      beforeCommitHash == StartHash(call, head)
                      context == BuildContext(s, call.path, call.marker, call.prompt,
                                              beforeCommitHash, executionSequence)
                  IN  /\ nextSeq' = [nextSeq EXCEPT ![s] = executionSequence]
                      /\ IF ~hashOk
                         THEN /\ calls' = [calls EXCEPT ![c] = Throw(call, "hash")]
                                          /\ UNCHANGED <<activeExecutions, events>>
                         ELSE /\ activeExecutions' = [activeExecutions EXCEPT ![s] = context]
                              /\ events' = Append(events,
                                    [type |-> "execution-started", sessionId |-> s,
                                     executionSequence |-> executionSequence,
                                     diffId |-> 0, files |-> 0])
                              /\ calls' = [calls EXCEPT ![c] =
                                    IF emitOk
                                    THEN [Return(call) EXCEPT !.ctx = context]
                                    ELSE [Throw(call, "emit") EXCEPT !.ctx = context]]
    /\ UNCHANGED <<head, dirty, output, diffs>>

\* mutant: an endExecution that treats a missing context as an error, and gives
\* up on a context it finds
EndBegin_Throws(s, keepRecord) ==
    /\ calls' = Append(calls,
          Throw([NewCall EXCEPT !.op = "end", !.sid = s, !.ctx = activeExecutions[s]],
                "context"))
    /\ activeExecutions' = CatchCleanup(activeExecutions, s)
    /\ UNCHANGED <<head, dirty, nextSeq, output, diffs, events>>

\* --------------------------------------------------------- endExecution
\* lines 67-120: context lookup, session lookup, commit mode resolution and the
\* call of handlePostPromptCommit, up to its await.  keepRecord: whether the
\* call record remembers the session record read (it plays no part afterwards)
EndBegin(s, keepRecord) ==
    /\ LET context == activeExecutions[s]
           call == [NewCall EXCEPT !.op = "end", !.sid = s, !.ctx = context]
       IN  IF context = NoCtx
           THEN /\ calls' = Append(calls, Return(call))
                /\ UNCHANGED activeExecutions
           ELSE \E lookupOk \in BOOLEAN, session \in SessionRecords :
                  IF ~lookupOk
                  THEN /\ calls' = Append(calls, Throw(call, "session"))
                       /\ activeExecutions' = CatchCleanup(activeExecutions, s)
                  ELSE LET r == ResolveCommitMode(session)
                           kept == IF keepRecord THEN session ELSE NoSession
                       IN  IF r.throws
                           THEN /\ calls' = Append(calls,
                                      [Throw(call, "parse") EXCEPT !.session = kept])
                                /\ activeExecutions' = CatchCleanup(activeExecutions, s)
                           ELSE /\ calls' = Append(calls,
                                      [Step(Step(call, "resolve"), "commit.call") EXCEPT
                                          !.pc = "commit",
                                          !.session = kept,
                                          !.mode = r.commitMode,
                                          !.settings = r.settings,
                                          !.parseFailed = r.parseFailed])
                                /\ UNCHANGED activeExecutions
    /\ UNCHANGED <<head, dirty, nextSeq, output, diffs, events>>

EndCall(s) == EndBegin(s, FALSE)

\* the same call, keeping the session record it read beside the settings it
\* passes on, for as long as handlePostPromptCommit is awaited
EndCallRecorded(s) == EndBegin(s, TRUE)

\* lines 114-237: handlePostPromptCommit resolves or rejects; its outcome is
\* reported, then the structured wait is called, or HEAD is re-read and the
\* capture called
EndCommitReturn(c) ==
    /\ c \in 1..Len(calls)
    /\ calls[c].op = "end" /\ calls[c].pc = "commit"
    /\ LET call == calls[c]
           s == call.sid
           p == call.ctx.worktreePath
       IN  \E rejects \in BOOLEAN :
             IF rejects
             THEN /\ Settle(c, Throw(call, "commit"))
                  /\ UNCHANGED <<head, dirty, output>>
             ELSE \E res \in CommitOutcomes(call.settings, p), hashOk \in BOOLEAN :
                    LET hd == IF res.commits THEN [head EXCEPT ![p] = res.commitHash] ELSE head
                        out == CommitOutput(call.mode, res)
                        c1 == [Step(call, "commit.ret") EXCEPT
                                  !.session = NoSession,
                                  !.settings = NoSettings,
                                  !.commitFailed = ~res.success,
                                  !.appended = @ \o out]
                    IN  /\ head' = hd
                        /\ dirty' = IF res.commits THEN [dirty EXCEPT ![p] = 0] ELSE dirty
                        /\ output' = [output EXCEPT ![s] = @ \o out]
                        /\ IF NeedsWait(call.mode)
                           THEN Settle(c, [Step(c1, "wait.call") EXCEPT
                                              !.pc = "wait", !.waitFrom = hd[p],
                                              !.timeoutMs = WaitTimeoutMs])
                           ELSE Settle(c, ReadHashAndCapture(c1, hd, hashOk))
    /\ UNCHANGED <<nextSeq, diffs, events>>

\* lines 179-237: waitForStructuredCommit resolves or rejects; its outcome is
\* reported, HEAD is re-read and the capture called
EndWaitReturn(c) ==
    /\ c \in 1..Len(calls)
    /\ calls[c].op = "end" /\ calls[c].pc = "wait"
    /\ LET call == calls[c]
           s == call.sid
           p == call.ctx.worktreePath
       IN  \E rejects \in BOOLEAN :
             IF rejects
             THEN /\ Settle(c, Throw(call, "wait"))
                  /\ UNCHANGED output
             ELSE \E res \in WaitOutcomes(p, call.waitFrom), hashOk \in BOOLEAN :
                    LET out == WaitOutput(res)
                        c1 == [Step(call, "wait.ret") EXCEPT
                                  !.timedOut = ~res.success,
                                  !.appended = @ \o out]
                    IN  /\ output' = [output EXCEPT ![s] = @ \o out]
                        /\ Settle(c, ReadHashAndCapture(c1, head, hashOk))
    /\ UNCHANGED <<head, dirty, nextSeq, diffs, events>>

\* the wait stands still: no interval ever goes by
WaitTick_Stalled(c) ==
    /\ c \in 1..Len(calls)
    /\ calls[c].op = "end" /\ calls[c].pc = "wait"
    /\ UNCHANGED vars

\* waitForStructuredCommit in time: while no new commit is there and the bound
\* has not passed, another interval goes by
WaitTick(c) ==
    /\ c \in 1..Len(calls)
    /\ calls[c].op = "end" /\ calls[c].pc = "wait"
    /\ LET call == calls[c]
           p == call.ctx.worktreePath
           later == call.waited + PollMs
       IN  /\ head[p] = call.waitFrom
           /\ call.waited < call.timeoutMs
           /\ Settle(c, [call EXCEPT !.waited = IF later > call.timeoutMs
                                                THEN call.timeoutMs ELSE later])
    /\ UNCHANGED <<head, dirty, nextSeq, output, diffs, events>>

\* the wait is over when a new commit is seen or the bound has passed (or it
\* rejects); endExecution goes on from line 183
WaitOver(call) ==
    \/ head[call.ctx.worktreePath] # call.waitFrom
    \/ call.waited >= call.timeoutMs

TimedWaitReturn(c) ==
    /\ c \in 1..Len(calls)
    /\ calls[c].op = "end" /\ calls[c].pc = "wait"
    /\ WaitOver(calls[c])
    /\ EndWaitReturn(c)

\* lines 227-253: the capture resolves or rejects; the diff data is built and
\* createExecutionDiff called
EndCaptureReturn(c) ==
    /\ c \in 1..Len(calls)
    /\ calls[c].op = "end" /\ calls[c].pc = "capture"
    /\ LET call == calls[c]
       IN  \E rejects \in BOOLEAN :
             IF rejects
             THEN Settle(c, Throw(call, "capture"))
             ELSE Settle(c, [Step(Step(call, "capture.ret"), "persist.call") EXCEPT
                                !.pc = "persist",
                                !.diff = CaptureResult(call.capture)])
    /\ UNCHANGED <<head, dirty, nextSeq, output, diffs, events>>

\* mutant: no record is created when no file changed
PersistDiff_OnlyChanges(store, createdDiff) ==
    IF createdDiff.data.stats_files_changed > 0 THEN Append(store, createdDiff) ELSE store

\* the record is lost on its way to the store
PersistDiff_Dropped(store, createdDiff) == store

\* the record is stored under the key (session, sequence): a second record of
\* the same execution takes the place of the first
PersistDiff_Keyed(store, createdDiff) ==
    IF \E i \in 1..Len(store) :
          /\ store[i].data.session_id = createdDiff.data.session_id
          /\ store[i].data.execution_sequence = createdDiff.data.execution_sequence
    THEN store
    ELSE Append(store, createdDiff)

\* lines 239-253: the record is always created, "even if there are no changes"
PersistDiff(store, createdDiff) == Append(store, createdDiff)

\* lines 253-268: createExecutionDiff resolves with the stored record or
\* rejects; execution-completed is emitted and the context deleted
EndPersistReturn(c) ==
    /\ c \in 1..Len(calls)
    /\ calls[c].op = "end" /\ calls[c].pc = "persist"
    /\ LET call == calls[c]
           s == call.sid
       IN  \E rejects \in BOOLEAN, emitOk \in BOOLEAN :
             IF rejects
             THEN /\ Settle(c, Throw(call, "persist"))
                  /\ UNCHANGED <<diffs, events>>
             ELSE LET createdDiff ==
                          [id |-> Len(diffs) + 1, call |-> c,
                           data |-> DiffData(s, call.ctx, call.diff)]
                      c1 == Step(call, "persist.ret")
                  IN  /\ diffs' = PersistDiff(diffs, createdDiff)
                      /\ events' = Append(events,
                            [type |-> "execution-completed", sessionId |-> s,
                             executionSequence |-> call.ctx.executionSequence,
                             diffId |-> createdDiff.id, files |-> call.diff.files])
                      /\ IF emitOk
                         THEN /\ calls' = [calls EXCEPT ![c] = Return(c1)]
                              /\ activeExecutions' = FinalCleanup(activeExecutions, s)
                                       ELSE Settle(c, Throw(c1, "emit"))
    /\ UNCHANGED <<head, dirty, nextSeq, output>>

\* mutant: a cancellation that removes the context without telling anyone
cancelExecution_NoEvent(s) ==
    /\ calls' = Append(calls,
          Return([NewCall EXCEPT !.op = "cancel", !.sid = s, !.ctx = activeExecutions[s]]))
    /\ activeExecutions' = DeleteContext(activeExecutions, s)
    /\ UNCHANGED <<head, dirty, nextSeq, output, diffs, events>>

\* a cancellation whose event does not say which execution was cancelled
cancelExecution_Unnumbered(s) ==
    /\ LET context == activeExecutions[s]
           call == [NewCall EXCEPT !.op = "cancel", !.sid = s, !.ctx = context]
       IN  /\ calls' = Append(calls, Return(call))
           /\ IF context # NoCtx
              THEN /\ activeExecutions' = DeleteContext(activeExecutions, s)
                   /\ events' = Append(events,
                         [type |-> "execution-cancelled", sessionId |-> s,
                          executionSequence |-> 0, diffId |-> 0, files |-> 0])
              ELSE UNCHANGED <<activeExecutions, events>>
    /\ UNCHANGED <<head, dirty, nextSeq, output, diffs>>

\* ------------------------------------------------------ cancelExecution
\* lines 280-287
cancelExecution(s) ==
    /\ LET context == activeExecutions[s]
           call == [NewCall EXCEPT !.op = "cancel", !.sid = s, !.ctx = context]
       IN  /\ calls' = Append(calls, Return(call))
           /\ IF context # NoCtx
              THEN /\ activeExecutions' = DeleteContext(activeExecutions, s)
                   /\ events' = Append(events,
                         [type |-> "execution-cancelled", sessionId |-> s,
                          executionSequence |-> context.executionSequence,
                          diffId |-> 0, files |-> 0])
              ELSE UNCHANGED <<activeExecutions, events>>
    /\ UNCHANGED <<head, dirty, nextSeq, output, diffs>>

\* the agent could go on committing after the bound of the wait has passed
Expired_Never(call) == FALSE

\* ---------------------------------------------------------- environment
\* the agent works in a worktree between startExecution and endExecution of its
\* session (section 2), and in structured mode while endExecution waits for its
\* commit (section 4.3), until the bound of that wait has passed
Expired(call) == call.pc = "wait" /\ call.waited >= call.timeoutMs

Ending(s) ==
    \E c \in 1..Len(calls) :
        /\ calls[c].sid = s /\ calls[c].op = "end"
        /\ calls[c].pc \notin Finished \cup {"wait"} \/ Expired(calls[c])

InUse(p) == \E s \in Sessions : WorktreeOf(s) = p /\ isTracking(s) /\ ~Ending(s)

\* the agent (or the user) edits a file of the worktree
AgentEdit(p) ==
    /\ InUse(p)
    /\ dirty[p] < MaxFiles
    /\ dirty' = [dirty EXCEPT ![p] = @ + 1]
    /\ UNCHANGED <<activeExecutions, calls, head, nextSeq, output, diffs, events>>

\* the agent (or the user) commits the pending changes of the worktree
AgentCommit(p) ==
    /\ InUse(p)
    /\ dirty[p] > 0 /\ head[p] < MaxHash
    /\ head' = [head EXCEPT ![p] = @ + 1]
    /\ dirty' = [dirty EXCEPT ![p] = 0]
    /\ UNCHANGED <<activeExecutions, calls, nextSeq, output, diffs, events>>

\* --------------------------------------------------------- specifications
Resume(c) ==
    \/ StartResume(c)
    \/ EndCommitReturn(c)
    \/ EndWaitReturn(c)
    \/ EndCaptureReturn(c)
    \/ EndPersistReturn(c)

Environment ==
    \E p \in Paths : AgentEdit(p) \/ AgentCommit(p)

\* a suspended call goes on, the structured wait taking its time
TimedResume(c) ==
    \/ StartResume(c)
    \/ EndCommitReturn(c)
    \/ WaitTick(c)
    \/ TimedWaitReturn(c)
    \/ EndCaptureReturn(c)
    \/ EndPersistReturn(c)

\* the caller may make another call
CanCall == Len(calls) < MaxCalls

\* any interleaving of calls
Next ==
    \/ \E s \in Sessions : CanCall /\ StartCall(s)
    \/ \E s \in Sessions : CanCall /\ EndCall(s)
    \/ \E s \in Sessions : CanCall /\ cancelExecution(s)
    \/ \E c \in 1..MaxCalls : Resume(c)
    \/ Environment

Spec == Init /\ [][Next]_vars

\* the caller's discipline of section 5: the calls on one session are made in
\* strict sequence, each after the previous one on that session has finished
CanCallOn(s) == CanCall /\ ~InFlight(s)

SeqNext ==
    \/ \E s \in Sessions : CanCallOn(s) /\ StartCall(s)
    \/ \E s \in Sessions : CanCallOn(s) /\ EndCall(s)
    \/ \E s \in Sessions : CanCallOn(s) /\ cancelExecution(s)
    \/ \E c \in 1..MaxCalls : Resume(c)
    \/ Environment

SeqSpec == Init /\ [][SeqNext]_vars

\* the same discipline, with the session record of each endExecution on record
ResolveNext ==
    \/ \E s \in Sessions : CanCallOn(s) /\ StartCall(s)
    \/ \E s \in Sessions : CanCallOn(s) /\ EndCallRecorded(s)
    \/ \E c \in 1..MaxCalls : Resume(c)
    \/ Environment

ResolveSpec == Init /\ [][ResolveNext]_vars

\* calls on one session that overlap: once a first startExecution has returned,
\* the caller makes the next calls on the session without waiting for the
\* previous one to finish; it never has two calls of the same operation in
\* flight at once
RaceSession == "s1"

Started == calls # <<>> /\ calls[1].pc = "returned"

Running(op) ==
    \E c \in 1..Len(calls) : calls[c].op = op /\ calls[c].pc \notin Finished

CanCallMore ==
    IF calls = <<>> THEN TRUE ELSE Started /\ Len(calls) < MaxCalls + 1

RaceNext ==
    \/ CanCallMore /\ ~Running("start") /\ StartCall(RaceSession)
    \/ CanCallMore /\ Started /\ ~Running("end") /\ EndCall(RaceSession)
    \/ CanCallMore /\ Started /\ cancelExecution(RaceSession)
    \/ \E c \in 1..(MaxCalls + 1) : Resume(c)
    \/ Environment

RaceSpec == Init /\ [][RaceNext]_vars

\* one session whose calls follow one another, the structured wait taking its
\* time; every git and persistence call returns or fails, so a suspended call
\* always goes on in the end
TimedNext ==
    \/ CanCallOn(RaceSession) /\ StartCall(RaceSession)
    \/ CanCallOn(RaceSession) /\ EndCall(RaceSession)
    \/ \E c \in 1..MaxCalls : TimedResume(c)
    \/ Environment

TimedSpec ==
    Init /\ [][TimedNext]_vars /\ \A c \in 1..MaxCalls : WF_vars(TimedResume(c))

\* one session whose endExecution calls may overlap each other and a
\* cancelExecution: startExecution is called when no call is in flight,
\* endExecution and cancelExecution at any time after the first start; the
\* worktree is left as it is all along
OverlapNext ==
    \/ CanCallMore /\ ~InFlight(RaceSession) /\ StartCall(RaceSession)
    \/ CanCallMore /\ Started /\ EndCall(RaceSession)
    \/ CanCallMore /\ Started /\ cancelExecution(RaceSession)
    \/ \E c \in 1..(MaxCalls + 1) : Resume(c)

OverlapSpec == Init /\ [][OverlapNext]_vars

\* two sessions side by side.  On the first one the caller follows the
\* discipline of section 5 and calls each operation at most once; the second
\* one, the bystander, is started at any moment and stays tracked.  The calls of
\* the two sessions interleave freely
Bystander == "s2"

NotYet(s, op) == \A c \in 1..Len(calls) : ~(calls[c].sid = s /\ calls[c].op = op)

CanCallOnce(s, op) == NotYet(s, op) /\ ~InFlight(s)

PairNext ==
    \/ \E s \in Sessions : CanCallOnce(s, "start") /\ StartCall(s)
    \/ \E s \in Sessions \ {Bystander} : CanCallOnce(s, "end") /\ EndCall(s)
    \/ \E s \in Sessions \ {Bystander} : CanCallOnce(s, "cancel") /\ cancelExecution(s)
    \/ \E c \in 1..Len(calls) : Resume(c)
    \/ Environment

PairSpec == Init /\ [][PairNext]_vars

\* ------------------------------------------------------- getCombinedDiff
\* the stored rows getCombinedDiff reads: git_diff is a patch text (a sequence
\* of pieces, empty when the row has no diff content), files_changed may be
\* missing from a row
NoText == <<>>
Rows ==
    [session_id : Sessions,
     has_diff : BOOLEAN,
     stats : {[additions |-> 1, deletions |-> 0, filesChanged |-> 2],
              [additions |-> 2, deletions |-> 3, filesChanged |-> 1]},
     files_changed : {[present |-> FALSE, paths |-> <<>>],
                      [present |-> TRUE, paths |-> <<"f1">>],
                      [present |-> TRUE, paths |-> <<"f1", "f2">>],
                      [present |-> TRUE, paths |-> <<"f2", "f1">>]}]

\* the row stored at position i: its id is the one assigned on creation
\* (EndPersistReturn), its patch text is its own
Stored(row, i) ==
    [id |-> i, session_id |-> row.session_id,
     git_diff |-> IF row.has_diff THEN <<i>> ELSE NoText,
     stats_additions |-> row.stats.additions,
     stats_deletions |-> row.stats.deletions,
     stats_files_changed |-> row.stats.filesChanged,
     files_changed |-> row.files_changed,
     before_commit_hash |-> i - 1, after_commit_hash |-> i]

\* a store holds at most one row per endExecution call
MaxStored == MaxCalls

\* the stores of up to max rows
Stores(max) ==
    UNION {{[i \in 1..n |-> Stored(f[i], i)] : f \in [1..n -> Rows]} : n \in 0..max}

\* the executionIds argument: not given, or a list of ids
NoIds == [given |-> FALSE, list |-> <<>>]
IdLists ==
    {NoIds} \cup
    {[given |-> TRUE, list |-> l] :
        l \in {<<>>} \cup {<<i>> : i \in 1..MaxStored}
                     \cup {<<i, j>> : i, j \in 1..MaxStored}}

\* sessionManager.getExecutionDiffs(sessionId): the rows of the session, in
\* stored order
getExecutionDiffs(store, s) == SelectSeq(store, LAMBDA exec : exec.session_id = s)

Includes(list, x) == \E i \in 1..Len(list) : list[i] = x

\* the filter takes every row of the session, also for an empty list
FilterByIds_Always(executions, executionIds) ==
    SelectSeq(executions, LAMBDA exec : Includes(executionIds.list, exec.id))

\* lines 312-316: the filter by ids applies only to a non-empty list
FilterByIds(executions, executionIds) ==
    IF executionIds.given /\ Len(executionIds.list) > 0
    THEN SelectSeq(executions, LAMBDA exec : Includes(executionIds.list, exec.id))
    ELSE executions

\* line 319: .filter(exec => exec.git_diff)
WithDiffContent(executions) == SelectSeq(executions, LAMBDA exec : exec.git_diff # NoText)

\* lines 320-330: the GitDiffResult built from a row; files_changed || []
ToGitDiffResult(exec) ==
    [diff |-> exec.git_diff,
     stats |-> [additions |-> exec.stats_additions,
                deletions |-> exec.stats_deletions,
                filesChanged |-> exec.stats_files_changed],
     changedFiles |-> IF exec.files_changed.present THEN exec.files_changed.paths ELSE <<>>,
     beforeHash |-> exec.before_commit_hash,
     afterHash |-> exec.after_commit_hash]

MapResults(executions) == [i \in 1..Len(executions) |-> ToGitDiffResult(executions[i])]

\* the paths not seen yet are added at the end, in their order
RECURSIVE AppendNew(_, _)
AppendNew(seen, paths) ==
    IF paths = <<>> THEN seen
    ELSE AppendNew(IF Includes(seen, Head(paths)) THEN seen ELSE Append(seen, Head(paths)),
                   Tail(paths))

NoCombined ==
    [diff |-> <<>>, stats |-> [additions |-> 0, deletions |-> 0, filesChanged |-> 0],
     changedFiles |-> <<>>]

\* the union keeps every path, also one seen before
MergeInto_Repeating(acc, d) ==
    [diff |-> acc.diff \o d.diff,
     stats |-> [additions |-> acc.stats.additions + d.stats.additions,
                deletions |-> acc.stats.deletions + d.stats.deletions,
                filesChanged |-> acc.stats.filesChanged + d.stats.filesChanged],
     changedFiles |-> acc.changedFiles \o d.changedFiles]

\* one more input taken into the aggregate
MergeInto(acc, d) ==
    [diff |-> acc.diff \o d.diff,
     stats |-> [additions |-> acc.stats.additions + d.stats.additions,
                deletions |-> acc.stats.deletions + d.stats.deletions,
                filesChanged |-> acc.stats.filesChanged + d.stats.filesChanged],
     changedFiles |-> AppendNew(acc.changedFiles, d.changedFiles)]

RECURSIVE CombineFrom(_, _)
CombineFrom(acc, ds) ==
    IF ds = <<>> THEN acc ELSE CombineFrom(MergeInto(acc, Head(ds)), Tail(ds))

\* gitDiffManager.combineDiffs(diffs): stats summed field-wise, changedFiles
\* unioned in first-seen order, diff text concatenated in input order
combineDiffs(ds) == CombineFrom(NoCombined, ds)

\* lines 306-335: getCombinedDiff(sessionId, executionIds?); `fails` when
\* getExecutionDiffs or combineDiffs rejects, which goes to the caller
getCombinedDiff(s, executionIds) ==
    \E fails \in BOOLEAN :
        LET executions == getExecutionDiffs(diffs, s)
            filteredExecutions == FilterByIds(executions, executionIds)
            input == MapResults(WithDiffContent(filteredExecutions))
        IN  /\ calls' = Append(calls,
                  [op |-> "combine", sid |-> s, ids |-> executionIds,
                   pc |-> IF fails THEN "threw" ELSE "returned",
                   input |-> IF fails THEN <<>> ELSE input,
                   result |-> IF fails THEN NoCombined ELSE combineDiffs(input)])
            /\ UNCHANGED <<activeExecutions, head, dirty, nextSeq, output, diffs, events>>

\* any store of rows, and one call of getCombinedDiff on it
CombineInit ==
    /\ activeExecutions = [s \in Sessions |-> NoCtx]
    /\ calls = <<>>
    /\ head = [p \in Paths |-> 0]
    /\ dirty = [p \in Paths |-> 0]
    /\ nextSeq = [s \in Sessions |-> 0]
    /\ output = [s \in Sessions |-> <<>>]
    /\ diffs \in Stores(MaxStored)
    /\ events = <<>>

CombineNext ==
    \E s \in Sessions, executionIds \in IdLists :
        calls = <<>> /\ getCombinedDiff(s, executionIds)

CombineSpec == CombineInit /\ [][CombineNext]_vars

\* ================================================================ claims
CallIds == 1..Len(calls)
EndCalls == {c \in CallIds : calls[c].op = "end"}
\* the endExecution calls that found an active context
TrackedEnds == {c \in EndCalls : calls[c].ctx # NoCtx}
StartCalls == {c \in CallIds : calls[c].op = "start"}

\* the records a call persisted, and the execution-completed events for them
RecordsOf(c) == {i \in 1..Len(diffs) : diffs[i].call = c}
CompletedOf(c) ==
    {j \in 1..Len(events) :
        /\ events[j].type = "execution-completed"
        /\ \E i \in RecordsOf(c) : diffs[i].id = events[j].diffId}

Subtypes(call) == {call.appended[i].subtype : i \in 1..Len(call.appended)}

IsPrefix(a, b) == Len(a) <= Len(b) /\ \A i \in 1..Len(a) : a[i] = b[i]

\* the call of session s made last (0: none)
LastCallOn(s) ==
    LET on == {c \in CallIds : calls[c].sid = s}
    IN  IF on = {} THEN 0 ELSE CHOOSE c \in on : \A d \in on : d <= c

\* a step in which call c finishes
Finishes(c) ==
    /\ c \in 1..Len(calls')
    /\ calls'[c].pc \in Finished
    /\ (c \in CallIds => calls[c].pc \notin Finished)

\* C1: under sequential per-session calls, isTracking(s) is false before any
\* startExecution(s), true after a startExecution(s) that returned normally, and
\* false again after endExecution(s) finished (returned or threw) and after
\* cancelExecution(s).
C1_TrackingLifecycle ==
    \A s \in Sessions :
        LET c == LastCallOn(s)
        IN  /\ (\A k \in StartCalls : calls[k].sid # s) => ~isTracking(s)
            /\ c # 0 =>
                /\ (calls[c].op = "start" /\ calls[c].pc = "returned") => isTracking(s)
                /\ (calls[c].op = "end" /\ calls[c].pc \in Finished) => ~isTracking(s)
                /\ calls[c].op = "cancel" => ~isTracking(s)

\* C1 witness: an endExecution that threw on a tracked session, which is not
\* tracked any more
C1_Witness ==
    \E c \in TrackedEnds :
        /\ calls[c].pc = "threw"
        /\ LastCallOn(calls[c].sid) = c
        /\ ~isTracking(calls[c].sid)
        /\ \E k \in StartCalls : calls[k].sid = calls[c].sid /\ calls[k].pc = "returned"

\* C2 as stated: every finished endExecution call has persisted exactly one
\* record.
C2_Original ==
    \A c \in EndCalls : calls[c].pc \in Finished => Cardinality(RecordsOf(c)) = 1

\* C2 amended: an endExecution call that found an active context and returned
\* normally has persisted exactly one record, also when the after-hash equals
\* the before-hash; a call that found no context has persisted none; no call
\* persists more than one.
C2_OneRecordPerTrackedEnd ==
    \A c \in EndCalls :
        /\ Cardinality(RecordsOf(c)) <= 1
        /\ (calls[c].pc = "returned" /\ calls[c].ctx # NoCtx)
              => Cardinality(RecordsOf(c)) = 1
        /\ calls[c].ctx = NoCtx => RecordsOf(c) = {}

\* C2 witness: a returned endExecution whose record is a zero-stat record of
\* equal hashes
C2_Witness ==
    \E c \in TrackedEnds :
        /\ calls[c].pc = "returned"
        /\ \E i \in RecordsOf(c) :
              /\ diffs[i].data.before_commit_hash = diffs[i].data.after_commit_hash
              /\ diffs[i].data.stats_files_changed = 0

\* C3: when an endExecution that found a context finishes, by return or by
\* throw, the registry holds no context for its session; a throw carries the
\* error of the step that failed, and leaves every commit made in place.
C3_CleanupUnconditional ==
    [][\A c \in 1..Len(calls') :
          (Finishes(c) /\ calls'[c].op = "end" /\ calls'[c].ctx # NoCtx)
             => /\ activeExecutions'[calls'[c].sid] = NoCtx
                /\ calls'[c].pc = "threw" =>
                      /\ calls'[c].cause \in
                            {"session", "commit", "wait", "hash", "capture", "persist", "emit"}
                      /\ \A p \in Paths : head'[p] >= head[p]]_vars

\* C3 witness: an endExecution that made a commit and then failed to persist;
\* the commit is in place and the session is not tracked
C3_Witness ==
    \E c \in TrackedEnds :
        /\ calls[c].pc = "threw" /\ calls[c].cause = "persist"
        /\ "autocommit_success" \in Subtypes(calls[c])
        /\ head[WorktreeOf(calls[c].sid)] > calls[c].ctx.beforeCommitHash
        /\ ~isTracking(calls[c].sid)

\* the steps of one endExecution, in the order of the code
Canonical(commitMode) ==
    IF commitMode = "structured"
    THEN <<"resolve", "commit.call", "commit.ret", "wait.call", "wait.ret", "hash",
           "capture.call", "capture.ret", "persist.call", "persist.ret">>
    ELSE <<"resolve", "commit.call", "commit.ret", "hash",
           "capture.call", "capture.ret", "persist.call", "persist.ret">>

\* what a recovered outcome leaves of the rest of the call: a throw comes from a
\* later step, a normal return has persisted one record and emitted its event
GoesOn(c, laterSteps) ==
    /\ calls[c].pc = "threw" => calls[c].cause \in laterSteps
    /\ calls[c].pc = "returned" =>
          /\ Cardinality(RecordsOf(c)) = 1
          /\ Cardinality(CompletedOf(c)) = 1

Recovered(c) ==
    /\ calls[c].commitFailed =>
          /\ "autocommit_error" \in Subtypes(calls[c])
          /\ GoesOn(c, {"wait", "hash", "capture", "persist", "emit"})
    /\ calls[c].timedOut =>
          /\ "autocommit_timeout" \in Subtypes(calls[c])
          /\ GoesOn(c, {"hash", "capture", "persist", "emit"})
    /\ calls[c].parseFailed =>
          GoesOn(c, {"commit", "wait", "hash", "capture", "persist", "emit"})

\* C4 as stated: a failed commit, unparseable settings and a structured timeout
\* do not make endExecution throw, each is turned into an output event of the
\* session, and the call goes on to persist a record and emit
\* execution-completed.
C4_Original ==
    \A c \in TrackedEnds :
        /\ Recovered(c)
        /\ calls[c].parseFailed => calls[c].appended # <<>>

\* C4 amended: none of the three makes endExecution throw and the call goes on
\* (a normal return has persisted one record and emitted execution-completed);
\* a failed commit appends autocommit_error and a timeout autocommit_timeout,
\* but unparseable settings append no output event: they are only logged.
C4_RecoveredOutcomes ==
    \A c \in TrackedEnds :
        /\ Recovered(c)
        /\ (calls[c].parseFailed /\ calls[c].pc = "commit") => calls[c].appended = <<>>

\* C4 witness: an endExecution with unparseable settings and a timed out wait
\* that returned with its record
C4_Witness ==
    \E c \in TrackedEnds :
        /\ calls[c].pc = "returned"
        /\ calls[c].parseFailed /\ calls[c].timedOut
        /\ Subtypes(calls[c]) = {"autocommit_mode", "autocommit_timeout"}
        /\ Cardinality(RecordsOf(c)) = 1

\* C5: a startExecution that fails in getNextExecutionSequence or in
\* getCurrentCommitHash leaves the registry as it was and emits no event.
C5_FailedStartStoresNothing ==
    [][\A c \in CallIds :
          (/\ calls[c].op = "start" /\ calls[c].pc = "sequence"
           /\ calls'[c].pc = "threw" /\ calls'[c].cause \in {"sequence", "hash"})
             => /\ activeExecutions' = activeExecutions
                /\ events' = events
                /\ calls'[c].ctx = NoCtx]_vars

\* C5 witness: a startExecution that failed at the hash read on a session that
\* an earlier startExecution left tracked; the earlier context is still there
C5_Witness ==
    \E c \in StartCalls :
        /\ calls[c].pc = "threw" /\ calls[c].cause = "hash"
        /\ isTracking(calls[c].sid)
        /\ activeExecutions[calls[c].sid].executionSequence < nextSeq[calls[c].sid]

\* C6 as stated: the context a startExecution stored has the HEAD of the time
\* of the call as its beforeCommitHash.
C6_Original ==
    \A c \in StartCalls :
        calls[c].ctx # NoCtx => calls[c].ctx.beforeCommitHash = calls[c].headAtCall

\* C6 amended: the context a startExecution stores has as beforeCommitHash the
\* HEAD of the worktree at the moment the call goes on after
\* getNextExecutionSequence, which is the moment it stores the context.
C6_HashAtStore ==
    [][\A c \in CallIds :
          (/\ calls[c].op = "start" /\ calls[c].pc = "sequence"
           /\ calls'[c].ctx # NoCtx)
             => /\ calls'[c].ctx.beforeCommitHash = head[calls[c].path]
                /\ activeExecutions'[calls[c].sid] = calls'[c].ctx]_vars

\* C6 witness: a stored context whose beforeCommitHash is not the HEAD of the
\* time of the call
C6_Witness ==
    \E c \in StartCalls :
        /\ calls[c].pc = "returned"
        /\ calls[c].ctx.beforeCommitHash # calls[c].headAtCall
        /\ calls[c].ctx.beforeCommitHash = head[WorktreeOf(calls[c].sid)]

\* C7: commit mode precedence.  An explicit commitMode is the mode, whatever
\* autoCommit and the serialized settings say, and is the mode of the settings
\* handed to handlePostPromptCommit; else a legacy autoCommit maps true to
\* checkpoint and false to disabled; else the mode is checkpoint with the
\* prefix "checkpoint: ".
C7_ModePrecedence ==
    \A c \in TrackedEnds :
        calls[c].pc = "commit" =>
            LET rec == calls[c].session
            IN  IF rec.exists /\ rec.commitMode # Absent
                THEN /\ calls[c].mode = rec.commitMode
                     /\ calls[c].settings.mode = rec.commitMode
                ELSE IF rec.exists /\ rec.autoCommit # Absent
                THEN /\ calls[c].mode =
                          (IF rec.autoCommit = "true" THEN "checkpoint" ELSE "disabled")
                     /\ calls[c].settings.mode = calls[c].mode
                ELSE /\ calls[c].mode = "checkpoint"
                     /\ calls[c].settings =
                          [mode |-> "checkpoint", checkpointPrefix |-> "checkpoint: "]

\* C7 witness: handlePostPromptCommit awaited with mode disabled for a record
\* whose autoCommit is true and whose serialized settings say structured
C7_Witness ==
    \E c \in TrackedEnds :
        /\ calls[c].pc = "commit"
        /\ calls[c].session.exists
        /\ calls[c].session.commitMode = "disabled"
        /\ calls[c].session.autoCommit = "true"
        /\ calls[c].session.commitModeSettings.wellFormed
        /\ calls[c].session.commitModeSettings.mode = "structured"
        /\ calls[c].settings.mode = "disabled"

\* C8: unparseable commitModeSettings beside an explicit commitMode never make
\* endExecution throw: the settings used are the defaults with the explicit
\* mode, and the commit attempt, the capture and the persistence still run.
C8_MalformedSettings ==
    \A c \in EndCalls :
        LET rec == calls[c].session
        IN  /\ (rec.exists /\ rec.commitMode # Absent /\ rec.commitModeSettings = BadPayload)
                  => /\ calls[c].pc = "commit"
                     /\ calls[c].parseFailed
                     /\ calls[c].settings =
                           [mode |-> rec.commitMode, checkpointPrefix |-> "checkpoint: "]
            /\ calls[c].parseFailed
                  => /\ IsPrefix(<<"resolve", "commit.call">>, calls[c].steps)
                     /\ calls[c].cause # "parse"
                     /\ calls[c].pc = "returned" =>
                           /\ IsPrefix(calls[c].steps, Canonical(calls[c].mode))
                           /\ Len(calls[c].steps) = Len(Canonical(calls[c].mode))
                           /\ Cardinality(RecordsOf(c)) = 1

\* C8 witness: an endExecution with unparseable settings that made its
\* checkpoint commit and returned with its record
C8_Witness ==
    \E c \in TrackedEnds :
        /\ calls[c].pc = "returned"
        /\ calls[c].parseFailed
        /\ calls[c].mode = "checkpoint"
        /\ "autocommit_success" \in Subtypes(calls[c])
        /\ Cardinality(RecordsOf(c)) = 1

\* C9: the steps of one endExecution come in the order resolution, commit
\* attempt, structured wait (structured mode only), HEAD re-read, capture,
\* persistence; the after-hash is read after the commit attempt and the wait,
\* so it is not older than a commit they reported.
C9_StepOrder ==
    \A c \in TrackedEnds :
        /\ calls[c].mode # "none" => IsPrefix(calls[c].steps, Canonical(calls[c].mode))
        /\ calls[c].afterHash # -1 =>
              \A i \in 1..Len(calls[c].appended) :
                  calls[c].appended[i].commit_hash <= calls[c].afterHash

\* C9 witness: a structured endExecution that went through all its steps after
\* the agent's commit was seen
C9_Witness ==
    \E c \in TrackedEnds :
        /\ calls[c].pc = "returned"
        /\ calls[c].steps = Canonical("structured")
        /\ "autocommit_claude_success" \in Subtypes(calls[c])

\* C10: the capture follows the re-read hash: equal to beforeCommitHash, the
\* working directory diff is captured; otherwise the commit diff from
\* beforeCommitHash to the re-read hash; never both.
C10_CaptureSelection ==
    \A c \in TrackedEnds :
        calls[c].capture # NoCapture =>
            /\ calls[c].capture.path = calls[c].ctx.worktreePath
            /\ IF calls[c].afterHash = calls[c].ctx.beforeCommitHash
               THEN calls[c].capture.kind = "workdir"
               ELSE /\ calls[c].capture.kind = "commit"
                    /\ calls[c].capture.from = calls[c].ctx.beforeCommitHash
                    /\ calls[c].capture.to = calls[c].afterHash
            /\ Cardinality({i \in 1..Len(calls[c].steps) :
                               calls[c].steps[i] = "capture.call"}) = 1
            /\ calls[c].pc = "persist" => calls[c].diff.kind = calls[c].capture.kind

\* C10 witness: a commit diff captured between two different hashes
C10_Witness ==
    \E c \in TrackedEnds :
        /\ calls[c].pc = "persist"
        /\ calls[c].capture.kind = "commit"
        /\ calls[c].capture.from < calls[c].capture.to
        /\ calls[c].diff.beforeHash = calls[c].ctx.beforeCommitHash
        /\ calls[c].diff.afterHash = calls[c].afterHash

Cancels == {k \in CallIds : calls[k].op = "cancel" /\ calls[k].ctx # NoCtx}

\* the events of session s and execution sequence n, by position
EventsOf(s, n, type) ==
    {j \in 1..Len(events) :
        /\ events[j].type = type
        /\ events[j].sessionId = s
        /\ events[j].executionSequence = n}

\* C12 as stated: once cancelExecution(s) has removed the context of an
\* execution, also while an endExecution(s) is suspended at an await, no
\* execution-completed event (and so no record persisted with it) follows for
\* that execution sequence.
C12_Original ==
    \A k \in Cancels :
        LET s == calls[k].sid
            n == calls[k].ctx.executionSequence
        IN  \A j1 \in EventsOf(s, n, "execution-cancelled") :
                \A j2 \in EventsOf(s, n, "execution-completed") : j2 < j1

\* after a cancelExecution that removed a context: no endExecution begun later
\* works on the cancelled execution, and every record of that execution comes
\* from an endExecution begun before the cancellation
CancelStopsLaterCalls ==
    \A k \in Cancels :
        LET s == calls[k].sid
            n == calls[k].ctx.executionSequence
        IN  /\ \A c \in EndCalls :
                  (c > k /\ calls[c].sid = s) => calls[c].ctx.executionSequence # n
            /\ \A i \in 1..Len(diffs) :
                  (diffs[i].data.session_id = s /\ diffs[i].data.execution_sequence = n)
                     => diffs[i].call < k
            /\ Cardinality(EventsOf(s, n, "execution-cancelled")) = 1

\* a step that is a cancelExecution call
IsCancelStep ==
    /\ Len(calls') = Len(calls) + 1
    /\ calls'[Len(calls')].op = "cancel"

\* C12 amended: cancelExecution stops the tracking steps of the calls begun
\* after it: an endExecution begun after the cancellation finds no context of
\* the cancelled execution and does nothing for it.  It does not stop an
\* endExecution that is suspended at an await: that call holds the context it
\* read and goes on to report, capture, persist and emit execution-completed.
\* The cancellation itself undoes nothing: commits, session output, records and
\* the calls in flight are left as they are.
C12_CancelStopsLaterCalls ==
    [][/\ CancelStopsLaterCalls'
       /\ IsCancelStep =>
             /\ head' = head /\ dirty' = dirty
             /\ output' = output /\ diffs' = diffs
             /\ \A c \in CallIds : calls'[c] = calls[c]]_vars

\* C12 witness: an endExecution suspended when its execution was cancelled went
\* on: it persisted the record and emitted execution-completed after
\* execution-cancelled, for the same execution sequence
C12_Witness ==
    \E k \in Cancels : \E c \in TrackedEnds :
        /\ c < k
        /\ calls[c].ctx = calls[k].ctx
        /\ calls[c].pc = "returned"
        /\ Cardinality(RecordsOf(c)) = 1
        /\ \E j1 \in EventsOf(calls[k].sid, calls[k].ctx.executionSequence,
                              "execution-cancelled") :
              \E j2 \in EventsOf(calls[k].sid, calls[k].ctx.executionSequence,
                                 "execution-completed") : j1 < j2

\* a step that is a cancelExecution(s) call
IsCancelStepOn(s) == IsCancelStep /\ calls'[Len(calls')].sid = s

\* C13: cancelExecution(s) with an active context for s removes that context
\* and emits exactly one execution-cancelled event, carrying s and the
\* executionSequence of the removed context; with no active context it changes
\* nothing and emits no event.  Either way it touches nothing else.
C13_CancelEffect ==
    [][\A s \in Sessions :
          IsCancelStepOn(s) =>
             /\ IF activeExecutions[s] # NoCtx
                THEN /\ activeExecutions' = [activeExecutions EXCEPT ![s] = NoCtx]
                     /\ Len(events') = Len(events) + 1
                     /\ SubSeq(events', 1, Len(events)) = events
                     /\ events'[Len(events')].type = "execution-cancelled"
                     /\ events'[Len(events')].sessionId = s
                     /\ events'[Len(events')].executionSequence =
                           activeExecutions[s].executionSequence
                ELSE /\ activeExecutions' = activeExecutions
                     /\ events' = events
             /\ head' = head /\ dirty' = dirty /\ nextSeq' = nextSeq
             /\ output' = output /\ diffs' = diffs
             /\ \A c \in CallIds : calls'[c] = calls[c]]_vars

\* C13 witness: a cancellation that removed a context, after which the session
\* is not tracked and one execution-cancelled event carries its sequence
C13_Witness ==
    \E k \in Cancels :
        /\ LastCallOn(calls[k].sid) = k
        /\ ~isTracking(calls[k].sid)
        /\ events[Len(events)] =
              [type |-> "execution-cancelled", sessionId |-> calls[k].sid,
               executionSequence |-> calls[k].ctx.executionSequence,
               diffId |-> 0, files |-> 0]
        /\ Cardinality(EventsOf(calls[k].sid, calls[k].ctx.executionSequence,
                                "execution-cancelled")) = 1

\* a step that is the beginning of an endExecution(s) call
IsEndStepOn(s) ==
    /\ Len(calls') = Len(calls) + 1
    /\ calls'[Len(calls')].op = "end"
    /\ calls'[Len(calls')].sid = s

\* an endExecution that found no context has returned at once: no step taken,
\* nothing appended, no record, no event for a record
UntrackedEndsDidNothing ==
    \A c \in EndCalls :
        calls[c].ctx = NoCtx =>
            /\ calls[c].pc = "returned" /\ calls[c].cause = "none"
            /\ calls[c].steps = <<>> /\ calls[c].appended = <<>>
            /\ calls[c].mode = "none" /\ calls[c].capture = NoCapture
            /\ \A i \in 1..Len(diffs) : diffs[i].call # c

\* after an endExecution(s) that completed, and until a later startExecution(s)
\* stores a context, the registry holds none for s
CompletedEndLeavesNone ==
    \A c \in CallIds :
        (/\ calls[c].op = "end" /\ calls[c].pc = "returned" /\ calls[c].ctx # NoCtx
         /\ \A d \in (c + 1)..Len(calls) : calls[d].sid # calls[c].sid
         /\ \A k \in 1..(c - 1) :
               (calls[k].op = "start" /\ calls[k].sid = calls[c].sid) =>
                  calls[k].ctx.executionSequence <= calls[c].ctx.executionSequence)
           => activeExecutions[calls[c].sid] = NoCtx

\* C14: endExecution(s) with no active context for s returns without error and
\* does nothing: no commit attempt, no wait, no capture, no session output, no
\* record, no event, the registry unchanged; a second endExecution(s) after a
\* completed one finds no context, so it has no effect.
C14_EndWithoutContext ==
    [][/\ UntrackedEndsDidNothing'
       /\ CompletedEndLeavesNone'
       /\ \A s \in Sessions :
             (IsEndStepOn(s) /\ activeExecutions[s] = NoCtx) =>
                /\ calls'[Len(calls')].pc = "returned"
                /\ activeExecutions' = activeExecutions
                /\ head' = head /\ dirty' = dirty /\ nextSeq' = nextSeq
                /\ output' = output /\ diffs' = diffs /\ events' = events
                /\ \A c \in CallIds : calls'[c] = calls[c]]_vars

\* C14 witness: a second endExecution after one that completed; it found no
\* context and returned at once
C14_Witness ==
    \E c1 \in TrackedEnds : \E c2 \in EndCalls :
        /\ c1 < c2
        /\ calls[c1].sid = calls[c2].sid
        /\ calls[c1].pc = "returned" /\ Cardinality(RecordsOf(c1)) = 1
        /\ calls[c2].ctx = NoCtx /\ calls[c2].pc = "returned"
        /\ calls[c2].steps = <<>>
        /\ Len(diffs) = 1

\* what belongs to session b is the same before and after the step: its
\* context, its output, its sequence counter, its worktree and its calls; and
\* the step adds no call, record or event of b
Untouched(b) ==
    /\ activeExecutions'[b] = activeExecutions[b]
    /\ output'[b] = output[b]
    /\ nextSeq'[b] = nextSeq[b]
    /\ head'[WorktreeOf(b)] = head[WorktreeOf(b)]
    /\ dirty'[WorktreeOf(b)] = dirty[WorktreeOf(b)]
    /\ \A c \in CallIds : calls[c].sid = b => calls'[c] = calls[c]
    /\ \A c \in (Len(calls) + 1)..Len(calls') : calls'[c].sid # b
    /\ \A i \in (Len(diffs) + 1)..Len(diffs') : diffs'[i].data.session_id # b
    /\ \A j \in (Len(events) + 1)..Len(events') : events'[j].sessionId # b

\* what is on record for a session comes from that session's own calls: its
\* context from one of its startExecution calls, its records from its
\* endExecution calls, its events from its contexts
OwnRecordsOnly ==
    /\ \A s \in Sessions :
          activeExecutions[s] # NoCtx =>
             /\ activeExecutions[s].sessionId = s
             /\ \E k \in StartCalls : calls[k].sid = s /\ calls[k].ctx = activeExecutions[s]
    /\ \A i \in 1..Len(diffs) :
          /\ calls[diffs[i].call].sid = diffs[i].data.session_id
          /\ calls[diffs[i].call].ctx.sessionId = diffs[i].data.session_id
          /\ diffs[i].data.execution_sequence = calls[diffs[i].call].ctx.executionSequence
    /\ \A j \in 1..Len(events) :
          \E k \in StartCalls :
              /\ calls[k].sid = events[j].sessionId
              /\ calls[k].ctx.executionSequence = events[j].executionSequence

\* C15: every step belongs to one session: a call for session A, or the agent
\* in A's worktree, leaves the context, the output, the counter, the worktree
\* and the calls of every other session as they are and adds no record and no
\* event carrying another sessionId; records and events already there stay.
\* So what a session has on record is what its own calls put there, whatever
\* the other session does meanwhile.
C15_SessionsIndependent ==
    [][/\ \E a \in Sessions : \A b \in Sessions \ {a} : Untouched(b)
       /\ IsPrefix(diffs, diffs') /\ IsPrefix(events, events')
       /\ OwnRecordsOnly']_vars

\* C15 witness: the first session ran an execution from start to a persisted
\* record while the bystander was started in between; the bystander's context
\* is in place and carries its own first sequence
C15_Witness ==
    \E c \in TrackedEnds :
        /\ calls[c].sid # Bystander /\ calls[c].pc = "returned"
        /\ Cardinality(RecordsOf(c)) = 1
        /\ \E k \in StartCalls :
              /\ calls[k].sid = Bystander /\ calls[k].pc = "returned"
              /\ k > 1 /\ k < c
              /\ activeExecutions[Bystander] = calls[k].ctx
              /\ activeExecutions[Bystander].executionSequence = 1
        /\ output[Bystander] = <<>>
        /\ \A i \in 1..Len(diffs) : diffs[i].data.session_id # Bystander

\* the startExecution calls on s that stored a context
StoredBy(s) == {k \in StartCalls : calls[k].sid = s /\ calls[k].ctx # NoCtx}

\* C16: the registry holds at most one context per session, and a context in it
\* is whole: it is the context of the startExecution(s) that stored last, with
\* that call's own marker and prompt, a sequence newer than every context
\* stored before, and a hash read during that call; no field comes from a
\* context it replaced.
C16_OneContextReplaced ==
    /\ DOMAIN activeExecutions = Sessions
    /\ \A s \in Sessions :
          LET ctx == activeExecutions[s]
          IN  ctx # NoCtx =>
                 \E k \in StoredBy(s) :
                     /\ ctx = calls[k].ctx
                     /\ ctx.sessionId = s /\ ctx.worktreePath = WorktreeOf(s)
                     /\ ctx.promptMarkerId = k /\ ctx.prompt = k
                     /\ \A j \in StoredBy(s) \ {k} :
                           calls[j].ctx.executionSequence < ctx.executionSequence
                     /\ calls[k].headAtCall <= ctx.beforeCommitHash
                     /\ ctx.beforeCommitHash <= head[WorktreeOf(s)]

\* C16 witness: a second startExecution succeeded while the context of the
\* first was in the registry; the registry holds the second context, which
\* differs from the first in sequence, hash, prompt and marker
C16_Witness ==
    \E s \in Sessions : \E k1, k2 \in StoredBy(s) :
        /\ k1 < k2
        /\ calls[k1].pc = "returned" /\ calls[k2].pc = "returned"
        /\ activeExecutions[s] = calls[k2].ctx
        /\ calls[k2].ctx.executionSequence > calls[k1].ctx.executionSequence
        /\ calls[k2].ctx.beforeCommitHash # calls[k1].ctx.beforeCommitHash
        /\ calls[k2].ctx.prompt # calls[k1].ctx.prompt
        /\ calls[k2].ctx.promptMarkerId # calls[k1].ctx.promptMarkerId

\* every value of the result type {success, commitHash?, error?} (-1: no hash)
ResultShapes ==
    [success : BOOLEAN, commitHash : {-1} \cup (1..MaxHash), error : BOOLEAN]

\* how many events of a subtype a call appended to the session output
Count(call, subtype) ==
    Cardinality({i \in 1..Len(call.appended) : call.appended[i].subtype = subtype})

\* the endExecution calls whose handlePostPromptCommit has resolved
Committed == {c \in TrackedEnds : \E i \in 1..Len(calls[c].steps) : calls[c].steps[i] = "commit.ret"}

\* the event the commit phase appends, for every mode and every result
OutputFollowsResult ==
    \A m \in Modes : \A r \in ResultShapes :
        /\ (~r.success /\ r.error) =>
              CommitOutput(m, r) = <<[subtype |-> "autocommit_error", commit_hash |-> -1]>>
        /\ (r.success /\ m = "checkpoint") =>
              CommitOutput(m, r) =
                 <<[subtype |-> "autocommit_success", commit_hash |-> r.commitHash]>>
        /\ (r.success /\ m = "structured") =>
              CommitOutput(m, r) = <<[subtype |-> "autocommit_mode", commit_hash |-> -1]>>

\* C17: the output of the commit phase follows the commit result.  A result
\* with success = false and an error set gives exactly one autocommit_error and
\* neither autocommit_success nor autocommit_mode; a successful result in
\* checkpoint mode gives exactly one autocommit_success carrying the result's
\* commit hash, which is the commit just created when there is one; a
\* successful result in structured mode, which is how structured mode is
\* entered, gives exactly one autocommit_mode.
C17_CommitPhaseOutput ==
    /\ OutputFollowsResult
    /\ \A c \in Committed :
          LET call == calls[c]
              first == call.appended[1]
          IN  /\ call.commitFailed =>
                    /\ Count(call, "autocommit_error") = 1
                    /\ Count(call, "autocommit_success") = 0
                    /\ Count(call, "autocommit_mode") = 0
              /\ (~call.commitFailed /\ call.mode = "checkpoint") =>
                    /\ Count(call, "autocommit_success") = 1
                    /\ Count(call, "autocommit_error") = 0
                    /\ first.subtype = "autocommit_success"
                    /\ first.commit_hash # -1 =>
                          /\ first.commit_hash > call.ctx.beforeCommitHash
                          /\ first.commit_hash <= head[call.ctx.worktreePath]
              /\ call.mode = "structured" =>
                    /\ ~call.commitFailed
                    /\ Count(call, "autocommit_mode") = 1
                    /\ first.subtype = "autocommit_mode"
              /\ call.mode = "disabled" => call.appended = <<>>

\* C17 witness: a checkpoint commit was created and reported by one
\* autocommit_success carrying its hash, now HEAD of the worktree
C17_Witness ==
    \E c \in Committed :
        /\ calls[c].mode = "checkpoint" /\ ~calls[c].commitFailed
        /\ Len(calls[c].appended) = 1
        /\ calls[c].appended[1].subtype = "autocommit_success"
        /\ calls[c].appended[1].commit_hash = head[calls[c].ctx.worktreePath]
        /\ calls[c].appended[1].commit_hash = calls[c].ctx.beforeCommitHash + 1
        /\ output[calls[c].sid] = calls[c].appended

\* the endExecution calls whose waitForStructuredCommit has resolved
Waited == {c \in TrackedEnds : \E i \in 1..Len(calls[c].steps) : calls[c].steps[i] = "wait.ret"}

HasStep(call, name) == \E i \in 1..Len(call.steps) : call.steps[i] = name

\* C18: in structured mode, when the wait saw the agent's commit, endExecution
\* has appended one autocommit_claude_success carrying the new hash, the hash it
\* reads next; when the wait ended without a commit, it has appended one
\* autocommit_timeout and goes on all the same: it captures the diff against
\* the hash the wait started from, and a call that returns has persisted its
\* record.
C18_StructuredWait ==
    \A c \in Waited :
        LET call == calls[c]
            last == call.appended[Len(call.appended)]
        IN  /\ call.mode = "structured"
            /\ Count(call, "autocommit_claude_success") + Count(call, "autocommit_timeout") = 1
            /\ ~call.timedOut =>
                  /\ last.subtype = "autocommit_claude_success"
                  /\ last.commit_hash > call.ctx.beforeCommitHash
                  /\ call.pc \in {"capture", "persist"} =>
                        /\ last.commit_hash = call.afterHash
                        /\ last.commit_hash # call.waitFrom
                        /\ call.capture.kind = "commit"
            /\ call.timedOut =>
                  /\ last.subtype = "autocommit_timeout"
                  /\ call.pc # "threw" => HasStep(call, "capture.call")
                  /\ call.pc \in {"capture", "persist"} => call.afterHash = call.waitFrom
                  /\ call.pc = "returned" => Cardinality(RecordsOf(c)) = 1

\* C18 witness: the agent never committed; endExecution appended
\* autocommit_timeout after autocommit_mode, captured the working directory
\* diff against the unchanged hash and persisted the record
C18_Witness ==
    \E c \in Waited :
        /\ calls[c].timedOut /\ calls[c].pc = "returned"
        /\ Subtypes(calls[c]) = {"autocommit_mode", "autocommit_timeout"}
        /\ \E i \in RecordsOf(c) :
              /\ diffs[i].data.kind = "workdir"
              /\ diffs[i].data.before_commit_hash = calls[c].ctx.beforeCommitHash
              /\ diffs[i].data.after_commit_hash = calls[c].ctx.beforeCommitHash

\* a successful result appends nothing in disabled mode, and no wait follows
DisabledIsSilent ==
    /\ \A r \in ResultShapes : r.success => CommitOutput("disabled", r) = <<>>
    /\ ~NeedsWait("disabled")

\* C19: in disabled mode endExecution appends no autocommit event: the commit
\* phase is silent for the successful result the mode gives, and no wait
\* follows.  When the hash it re-reads is the hash of the start (no commit was
\* created), it captures the working directory diff, and a call that returns
\* has persisted one record of it, with equal hashes, zero-stat or not.
C19_DisabledMode ==
    /\ DisabledIsSilent
    /\ \A c \in TrackedEnds :
          calls[c].mode = "disabled" =>
             /\ calls[c].appended = <<>>
             /\ ~HasStep(calls[c], "wait.call")
             /\ (calls[c].capture # NoCapture
                   /\ calls[c].afterHash = calls[c].ctx.beforeCommitHash)
                   => calls[c].capture.kind = "workdir"
             /\ calls[c].pc = "returned" =>
                   /\ Cardinality(RecordsOf(c)) = 1
                   /\ \A i \in RecordsOf(c) :
                         diffs[i].data.kind = "workdir" =>
                            /\ diffs[i].data.before_commit_hash =
                                  diffs[i].data.after_commit_hash
                            /\ diffs[i].data.stats_files_changed \in 0..MaxFiles

\* C19 witness: a disabled endExecution with no commit created; it left the
\* session output empty and persisted one record of the uncommitted edits
C19_Witness ==
    \E c \in TrackedEnds :
        /\ calls[c].mode = "disabled" /\ calls[c].pc = "returned"
        /\ output[calls[c].sid] = <<>>
        /\ head[calls[c].ctx.worktreePath] = calls[c].ctx.beforeCommitHash
        /\ Cardinality(RecordsOf(c)) = 1
        /\ \E i \in RecordsOf(c) :
              /\ diffs[i].data.kind = "workdir"
              /\ diffs[i].data.stats_files_changed = dirty[calls[c].ctx.worktreePath]
              /\ dirty[calls[c].ctx.worktreePath] > 0

\* the modes in which the commit status is reported
Reporting == {"checkpoint", "structured"}

AutocommitSubtypes ==
    {"autocommit_error", "autocommit_success", "autocommit_mode",
     "autocommit_timeout", "autocommit_claude_success"}

\* the results for which the code has no message: a failed commit attempt
\* without an error, a successful wait without a hash
SilentResults ==
    /\ \A m \in Reporting : \A r \in ResultShapes :
          CommitOutput(m, r) = <<>> <=> (~r.success /\ ~r.error)
    /\ \A w \in ResultShapes :
          WaitOutput(w) = <<>> <=> (w.success /\ w.commitHash = -1)

\* C20 as stated: every endExecution on a tracked session whose resolved mode is
\* checkpoint or structured has appended at least one autocommit event by the
\* time it finishes.
C20_Original ==
    \A c \in TrackedEnds :
        (calls[c].mode \in Reporting /\ calls[c].pc \in Finished)
           => calls[c].appended # <<>>

\* C20 amended: in checkpoint and structured mode endExecution has appended at
\* least one autocommit event as soon as handlePostPromptCommit has resolved
\* with a result that is a success or carries an error, which are the results
\* the commit manager gives.  It appends nothing when handlePostPromptCommit
\* rejects (the call throws), and the code has no message for a failure without
\* an error, nor for a wait that succeeds without a hash.
C20_FeedbackOnceCommitResolved ==
    /\ \A c \in Committed :
          calls[c].mode \in Reporting =>
             /\ calls[c].appended # <<>>
             /\ Subtypes(calls[c]) \subseteq AutocommitSubtypes
    /\ \A c \in TrackedEnds \ Committed : calls[c].appended = <<>>
    /\ SilentResults

\* C20 witness: a checkpoint endExecution whose commit failed; autocommit_error
\* is the feedback it left before it went on to persist the record
C20_Witness ==
    \E c \in Committed :
        /\ calls[c].mode = "checkpoint" /\ calls[c].commitFailed
        /\ calls[c].pc = "returned"
        /\ output[calls[c].sid] =
              <<[subtype |-> "autocommit_error", commit_hash |-> -1]>>
        /\ Cardinality(RecordsOf(c)) = 1

\* ---------------------------------------------------------------- C21
\* the outcome of a structured wait that has returned, seen before the call
\* finishes: success came before the bound with the new commit's hash, failure
\* came at the bound with no new commit
WaitWithinBound ==
    \A c \in TrackedEnds :
        LET call == calls[c]
            last == call.appended[Len(call.appended)]
        IN  /\ call.waited <= WaitTimeoutMs
            /\ call.pc = "wait" => call.timeoutMs = WaitTimeoutMs
            /\ (HasStep(call, "wait.ret") /\ call.pc \in {"capture", "persist"}) =>
                  /\ call.timeoutMs = WaitTimeoutMs
                  /\ ~call.timedOut =>
                        /\ call.waited < call.timeoutMs
                        /\ call.afterHash # call.waitFrom
                        /\ last.subtype = "autocommit_claude_success"
                        /\ last.commit_hash = call.afterHash
                  /\ call.timedOut =>
                        /\ call.waited = call.timeoutMs
                        /\ call.afterHash = call.waitFrom
                        /\ last.subtype = "autocommit_timeout"

\* the wait goes on only while no new commit is there, and returns a timeout
\* only from the bound
WaitsOnlyWhileUnseen ==
    \A c \in CallIds :
        LET call == calls[c]
        IN  call.pc = "wait" =>
              /\ calls'[c].waited > call.waited =>
                    /\ head[call.ctx.worktreePath] = call.waitFrom
                    /\ call.waited < call.timeoutMs
              /\ (calls'[c].pc # "wait" /\ calls'[c].timedOut) =>
                    call.waited = call.timeoutMs

\* C21: waitForStructuredCommit returns success with the new hash as soon as a
\* new commit is observed and failure with a timeout once the bound has passed
\* with none; it never returns success after the bound and never waits past it;
\* endExecution calls it with a bound of 5000 ms
C21_BoundedWait == [][WaitWithinBound' /\ WaitsOnlyWhileUnseen]_vars

\* C21 witness: the agent committed after one interval of the wait; the wait
\* returned success with that commit's hash before the bound
C21_Witness ==
    \E c \in TrackedEnds :
        /\ calls[c].pc = "capture" /\ HasStep(calls[c], "wait.ret")
        /\ ~calls[c].timedOut
        /\ calls[c].waited = PollMs
        /\ calls[c].afterHash = head[calls[c].ctx.worktreePath]
        /\ calls[c].afterHash # calls[c].waitFrom

\* ---------------------------------------------------------------- C22
\* C22: every endExecution call eventually returns or throws, in every commit
\* mode and whether or not the agent ever commits, given that every git and
\* persistence call returns or fails
C22_EndTerminates ==
    \A c \in 1..MaxCalls :
        (c <= Len(calls) /\ calls[c].op = "end")
            ~> (c <= Len(calls) /\ calls[c].pc \in Finished)

\* C22 witness: a structured endExecution whose agent never committed has
\* returned, after the wait ran to its bound
C22_Witness ==
    \E c \in TrackedEnds :
        /\ calls[c].pc = "returned" /\ calls[c].mode = "structured"
        /\ calls[c].timedOut
        /\ head[calls[c].ctx.worktreePath] = calls[c].ctx.beforeCommitHash

\* ---------------------------------------------------------------- C23
\* the execution-completed events that name the record with this id
EventsFor(id) ==
    {j \in 1..Len(events) :
        events[j].type = "execution-completed" /\ events[j].diffId = id}

\* C23: execution-completed is emitted exactly once per endExecution that
\* persists a record, never without that record being stored, and carries the
\* session id, the executionSequence of the context that was started, the id of
\* the record and the stats stored in it; when the hash after the commit phase
\* differs from the before-hash, record and event describe the commit range
C23_CompletedEvent ==
    /\ \A i \in 1..Len(diffs) :
          LET rec == diffs[i]
              ctx == calls[rec.call].ctx
              range == captureCommitDiff(ctx.worktreePath, ctx.beforeCommitHash,
                                         rec.data.after_commit_hash)
          IN  /\ Cardinality(EventsFor(rec.id)) = 1
              /\ \A j \in EventsFor(rec.id) :
                    /\ events[j].sessionId = calls[rec.call].sid
                    /\ events[j].executionSequence = ctx.executionSequence
                    /\ events[j].files = rec.data.stats_files_changed
              /\ rec.data.kind = "commit" =>
                    /\ rec.data.after_commit_hash # ctx.beforeCommitHash
                    /\ rec.data.before_commit_hash = range.beforeHash
                    /\ rec.data.stats_files_changed = range.files
    /\ \A c \in TrackedEnds :
          LET call == calls[c]
              a == call.ctx.beforeCommitHash
          IN  (call.pc = "persist" /\ call.afterHash # a) =>
                  call.diff = captureCommitDiff(call.ctx.worktreePath, a, call.afterHash)
    /\ \A j \in 1..Len(events) :
          events[j].type = "execution-completed" =>
              \E i \in 1..Len(diffs) : diffs[i].id = events[j].diffId
    /\ \A c \in EndCalls :
          /\ Cardinality(RecordsOf(c)) <= 1
          /\ Cardinality(CompletedOf(c)) = Cardinality(RecordsOf(c))

\* C23 witness: a checkpoint commit moved HEAD past the before-hash; the call
\* returned with one record of the commit range and one event naming it
C23_Witness ==
    \E c \in TrackedEnds :
        /\ calls[c].pc = "returned" /\ calls[c].mode = "checkpoint"
        /\ \E i \in RecordsOf(c) :
              /\ diffs[i].data.kind = "commit"
              /\ diffs[i].data.after_commit_hash > calls[c].ctx.beforeCommitHash
              /\ diffs[i].data.stats_files_changed > 0
              /\ \E j \in CompletedOf(c) : events[j].files = diffs[i].data.stats_files_changed

\* ---------------------------------------------------------------- C24
CombineCalls == {c \in CallIds : calls[c].op = "combine" /\ calls[c].pc = "returned"}

\* the sum of a stats field over the first n inputs
SumTo(input, field, n) ==
    LET sum[k \in 0..n] == IF k = 0 THEN 0 ELSE sum[k - 1] + input[k].stats[field]
    IN  sum[n]

\* the length of the diff texts of the first n inputs together
TextTo(input, n) ==
    LET len[k \in 0..n] == IF k = 0 THEN 0 ELSE len[k - 1] + Len(input[k].diff)
    IN  len[n]

\* the places <<i, j>> where a path occurs in the inputs' changedFiles
PlacesOf(input, path) ==
    {pl \in (1..Len(input)) \X (1..2) :
        pl[2] <= Len(input[pl[1]].changedFiles) /\ input[pl[1]].changedFiles[pl[2]] = path}

Earlier(a, b) == a[1] < b[1] \/ (a[1] = b[1] /\ a[2] < b[2])

\* path f is first seen before path g
SeenBefore(input, f, g) ==
    \E a \in PlacesOf(input, f) : \A b \in PlacesOf(input, g) : Earlier(a, b)

\* C24: each stats field of the combined result is the sum of that field over
\* the inputs, changedFiles is the union of the inputs' changedFiles with each
\* path once in first-seen order, and the diff text is the inputs' diff texts
\* concatenated in input order
C24_CombineDiffs ==
    \A c \in CombineCalls :
        LET input == calls[c].input
            r == calls[c].result
            n == Len(input)
        IN  /\ \A field \in {"additions", "deletions", "filesChanged"} :
                  r.stats[field] = SumTo(input, field, n)
            /\ {r.changedFiles[k] : k \in 1..Len(r.changedFiles)} =
                  UNION {{input[i].changedFiles[j] : j \in 1..Len(input[i].changedFiles)} :
                            i \in 1..n}
            /\ \A k, l \in 1..Len(r.changedFiles) :
                  k < l => /\ r.changedFiles[k] # r.changedFiles[l]
                           /\ SeenBefore(input, r.changedFiles[k], r.changedFiles[l])
            /\ Len(r.diff) = TextTo(input, n)
            /\ \A i \in 1..n :
                  SubSeq(r.diff, TextTo(input, i - 1) + 1, TextTo(input, i)) = input[i].diff

\* C24 witness: two inputs with the same two paths in different order were
\* combined into one result with both paths once, in the first input's order
C24_Witness ==
    \E c \in CombineCalls :
        LET input == calls[c].input
            r == calls[c].result
        IN  /\ Len(input) = 2
            /\ input[1].changedFiles = <<"f2", "f1">>
            /\ input[2].changedFiles = <<"f1", "f2">>
            /\ r.changedFiles = <<"f2", "f1">>
            /\ input[1].stats # input[2].stats
            /\ r.diff = input[1].diff \o input[2].diff

\* ---------------------------------------------------------------- C26
\* the positions of the rows getCombinedDiff(s, ids) is to combine
SelectedRows(s, ids) ==
    {i \in 1..Len(diffs) :
        /\ diffs[i].session_id = s
        /\ diffs[i].git_diff # NoText
        /\ (ids.given /\ ids.list # <<>>) => \E k \in 1..Len(ids.list) : ids.list[k] = diffs[i].id}

\* the k-th smallest member of a set of positions
Nth(S, k) == CHOOSE i \in S : Cardinality({j \in S : j <= i}) = k

CombinesSelected ==
    \A c \in CombineCalls :
        LET call == calls[c]
            S == SelectedRows(call.sid, call.ids)
        IN  /\ Len(call.input) = Cardinality(S)
            /\ \A k \in 1..Len(call.input) :
                  LET row == diffs[Nth(S, k)]
                  IN  /\ call.input[k].diff = row.git_diff
                      /\ call.input[k].stats.additions = row.stats_additions
                      /\ call.input[k].stats.deletions = row.stats_deletions
                      /\ call.input[k].stats.filesChanged = row.stats_files_changed
                      /\ call.input[k].beforeHash = row.before_commit_hash
                      /\ call.input[k].afterHash = row.after_commit_hash
                      /\ call.input[k].changedFiles =
                            (IF row.files_changed.present
                             THEN row.files_changed.paths ELSE <<>>)
            /\ call.result = combineDiffs(call.input)

\* C26: getCombinedDiff(s, ids) combines, in stored order, exactly the stored
\* rows of s that have diff content and, when ids is given and non-empty, whose
\* id is in ids; an absent or empty ids selects all rows of s; no state changes
C26_GetCombinedDiff ==
    [][/\ CombinesSelected'
       /\ UNCHANGED <<activeExecutions, head, dirty, nextSeq, output, diffs, events>>
       /\ \A c \in CallIds : calls'[c] = calls[c]]_vars

\* C26 witness: called with an empty ids list on a session with two rows, one of
\* them without diff content: the one row with diff content was combined
C26_Witness ==
    \E c \in CombineCalls :
        /\ calls[c].ids = [given |-> TRUE, list |-> <<>>]
        /\ Len(calls[c].input) = 1
        /\ Cardinality({i \in 1..Len(diffs) : diffs[i].session_id = calls[c].sid}) = 2

\* ---------------------------------------------------------------- C25
\* how often a call took a step, and where
StepCount(call, name) == Cardinality({i \in 1..Len(call.steps) : call.steps[i] = name})
StepBefore(call, a, b) ==
    \A j \in 1..Len(call.steps) :
        call.steps[j] = b => \E i \in 1..(j - 1) : call.steps[i] = a

\* the step at which handlePostPromptCommit is invoked
CommitCalled == Len(<<"resolve", "commit.call">>)

HoldsLater(c) ==
    /\ calls[c].op = "end" /\ calls[c].ctx # NoCtx
    /\ activeExecutions[calls[c].sid] # NoCtx
    /\ activeExecutions[calls[c].sid].executionSequence > calls[c].ctx.executionSequence

\* C27 as stated: an endExecution that finishes while the registry holds the
\* context of a later execution leaves that context in place
C27_Original ==
    [][\A c \in CallIds :
          (Finishes(c) /\ HoldsLater(c))
             => activeExecutions'[calls[c].sid] = activeExecutions[calls[c].sid]]_vars

\* C27 amended: endExecution deletes the registry entry of its session by
\* session id when it finishes, normally or by error, whatever context the entry
\* holds then: if a later execution n+1 was registered while the endExecution of
\* execution n was suspended, the context of n+1 is removed and isTracking(s) is
\* false afterwards; the entries of other sessions are left alone
C27_StaleEndRemovesLater ==
    [][\A c \in CallIds :
          (Finishes(c) /\ HoldsLater(c))
             => /\ activeExecutions'[calls[c].sid] = NoCtx
                /\ ~isTracking(calls[c].sid)'
                /\ \A t \in Sessions \ {calls[c].sid} :
                      activeExecutions'[t] = activeExecutions[t]]_vars

\* C27 witness: startExecution registered a later execution while the
\* endExecution of the one before was suspended; that endExecution has finished,
\* no other call was made, and the session is no longer tracked
C27_Witness ==
    \E c, d \in CallIds :
        /\ c < d
        /\ calls[c].op = "end" /\ calls[c].ctx # NoCtx /\ calls[c].pc \in Finished
        /\ calls[d].op = "start" /\ calls[d].pc = "returned" /\ calls[d].sid = calls[c].sid
        /\ calls[d].ctx.executionSequence > calls[c].ctx.executionSequence
        /\ \A e \in CallIds : e > c => e = d
        /\ ~isTracking(calls[c].sid)

\* ---------------------------------------------------------------- C28
CompletedEvents == {j \in 1..Len(events) : events[j].type = "execution-completed"}

\* C28 as stated: no two persisted records and no two execution-completed
\* events share the same (sessionId, executionSequence)
C28_Original ==
    /\ \A i, j \in 1..Len(diffs) :
          (/\ diffs[i].data.session_id = diffs[j].data.session_id
           /\ diffs[i].data.execution_sequence = diffs[j].data.execution_sequence) => i = j
    /\ \A i, j \in CompletedEvents :
          (/\ events[i].sessionId = events[j].sessionId
           /\ events[i].executionSequence = events[j].executionSequence) => i = j

\* an endExecution call persists at most one record and emits at most one
\* execution-completed event, and every record has its event
OneRecordPerCall ==
    /\ \A c \in EndCalls :
          /\ Cardinality(RecordsOf(c)) <= 1
          /\ Cardinality(CompletedOf(c)) = Cardinality(RecordsOf(c))
    /\ Cardinality(CompletedEvents) = Len(diffs)

\* an endExecution call that begins reads a context that another endExecution
\* call has read only if that call has not finished
SharedOnlyInFlight ==
    Len(calls') > Len(calls) =>
        LET call == calls'[Len(calls')]
        IN  (call.op = "end" /\ call.ctx # NoCtx) =>
                \A d \in EndCalls : calls[d].ctx = call.ctx => calls[d].pc \notin Finished

\* C28 amended: each endExecution call persists at most one record and emits at
\* most one execution-completed event, and two records (or two events) share a
\* (sessionId, executionSequence) only if they come from two endExecution(s)
\* calls that overlapped: the second began, and read the same context, before
\* the first had finished.  When the endExecution calls of a session do not
\* overlap, as the caller's contract requires, the pair is unique.
C28_DuplicatesOnlyFromOverlap == [][OneRecordPerCall' /\ SharedOnlyInFlight]_vars

\* C28 witness: two overlapping endExecution calls read the same context, and
\* both persisted a record and emitted execution-completed for it
C28_Witness ==
    \E c, d \in TrackedEnds :
        /\ c < d /\ calls[c].ctx = calls[d].ctx
        /\ calls[c].pc = "returned" /\ calls[d].pc = "returned"
        /\ Cardinality(RecordsOf(c)) = 1 /\ Cardinality(RecordsOf(d)) = 1
        /\ Cardinality(CompletedOf(c)) = 1 /\ Cardinality(CompletedOf(d)) = 1

\* ---------------------------------------------------------------- C29
\* every call has finished, and every startExecution was followed by a call of
\* endExecution or cancelExecution on its session
AllClosed ==
    /\ \A c \in CallIds : calls[c].pc \in Finished
    /\ \A d \in StartCalls :
          \E e \in CallIds : e > d /\ calls[e].sid = calls[d].sid /\ calls[e].op # "start"

StartedEvents == {j \in 1..Len(events) : events[j].type = "execution-started"}

\* the endExecution calls that threw for execution n of session s
ThrewFor(s, n) ==
    {c \in TrackedEnds :
        calls[c].sid = s /\ calls[c].ctx.executionSequence = n /\ calls[c].pc = "threw"}

\* the number of terminal outcomes of execution n of session s
Outcomes(s, n) ==
    Cardinality(EventsOf(s, n, "execution-completed"))
      + Cardinality(EventsOf(s, n, "execution-cancelled"))
      + Cardinality(ThrewFor(s, n))

\* the calls that found the context of execution n of session s in the registry
ReadersOf(s, n) ==
    {c \in TrackedEnds \cup Cancels :
        calls[c].sid = s /\ calls[c].ctx.executionSequence = n}

\* C29 as stated: once the caller has called endExecution or cancelExecution
\* after every startExecution and the calls have finished, each
\* execution-started{s, n} has exactly one terminal outcome
C29_Original ==
    AllClosed =>
        \A j \in StartedEvents :
            Outcomes(events[j].sessionId, events[j].executionSequence) = 1

\* C29 amended: an execution reaches a terminal outcome if and only if an
\* endExecution or cancelExecution call found its context in the registry: an
\* endExecution that returns has emitted execution-completed{s, n}, one that
\* does not return throws, and a cancelExecution has emitted
\* execution-cancelled{s, n}.  The outcome need not be the only one, and an
\* execution whose context was replaced by a second startExecution(s) before any
\* endExecution or cancelExecution read it has no terminal outcome at all.
C29_OutcomeIffRead ==
    /\ \A c \in TrackedEnds :
          calls[c].pc = "returned" =>
              EventsOf(calls[c].sid, calls[c].ctx.executionSequence,
                       "execution-completed") # {}
    /\ \A k \in Cancels :
          EventsOf(calls[k].sid, calls[k].ctx.executionSequence,
                   "execution-cancelled") # {}
    /\ \A j \in 1..Len(events) :
          events[j].type # "execution-started" =>
              ReadersOf(events[j].sessionId, events[j].executionSequence) # {}

\* C29 witness: a second startExecution replaced the context of the first
\* execution; the endExecution that followed completed the second, and the
\* first was left without completion, cancellation or throwing endExecution
C29_Witness ==
    /\ AllClosed
    /\ \E i, j \in StartedEvents :
          /\ events[i].sessionId = events[j].sessionId
          /\ events[i].executionSequence < events[j].executionSequence
          /\ Outcomes(events[i].sessionId, events[i].executionSequence) = 0
          /\ EventsOf(events[j].sessionId, events[j].executionSequence,
                      "execution-completed") # {}

\* ---------------------------------------------------------------- C30
\* C30: the record persisted by an endExecution and its execution-completed
\* event are attributed to the context that endExecution read when it began:
\* session id, execution sequence and prompt marker of the record, the worktree
\* path of the capture and the before-hash of the diff range all come from that
\* context, whatever has happened to the registry entry in the meantime
C30_AttributedToReadContext ==
    /\ \A i \in 1..Len(diffs) :
          LET rec == diffs[i].data
              call == calls[diffs[i].call]
          IN  /\ rec.session_id = call.ctx.sessionId
              /\ rec.session_id = call.sid
              /\ rec.execution_sequence = call.ctx.executionSequence
              /\ rec.prompt_marker_id = call.ctx.promptMarkerId
              /\ rec.kind = "commit" => rec.before_commit_hash = call.ctx.beforeCommitHash
              /\ \A j \in EventsFor(diffs[i].id) :
                    /\ events[j].sessionId = call.ctx.sessionId
                    /\ events[j].executionSequence = call.ctx.executionSequence
    /\ \A c \in TrackedEnds :
          LET call == calls[c]
          IN  call.pc \in {"capture", "persist"} =>
                 /\ call.capture.path = call.ctx.worktreePath
                 /\ call.capture.kind = "commit" =>
                       call.capture.from = call.ctx.beforeCommitHash
                 /\ call.pc = "persist" /\ call.diff.kind = "commit" =>
                       call.diff.beforeHash = call.ctx.beforeCommitHash

\* C30 witness: while an endExecution was suspended a new startExecution put a
\* context with another sequence, marker and before-hash in the registry; the
\* endExecution went on to persist the commit range of the context it had read
C30_Witness ==
    \E c, d \in CallIds : \E i \in RecordsOf(c) :
        /\ c < d /\ calls[c].op = "end" /\ calls[c].pc = "returned"
        /\ calls[d].op = "start" /\ calls[d].pc = "returned"
        /\ \A e \in CallIds : e > c => e = d
        /\ ~isTracking(calls[c].sid)
        /\ calls[d].ctx.executionSequence # calls[c].ctx.executionSequence
        /\ calls[d].ctx.promptMarkerId # calls[c].ctx.promptMarkerId
        /\ calls[d].ctx.beforeCommitHash # calls[c].ctx.beforeCommitHash
        /\ diffs[i].data.kind = "commit"
        /\ diffs[i].data.execution_sequence = calls[c].ctx.executionSequence
        /\ diffs[i].data.prompt_marker_id = calls[c].ctx.promptMarkerId
        /\ diffs[i].data.before_commit_hash = calls[c].ctx.beforeCommitHash

====
